---- MODULE Spec2Model ----
(***************************************************************************)
(* Guardian-AI security pipeline: the detection loop                       *)
(* (security_threat_detection.py), the analysis worker                     *)
(* (security_worker.py), the persistence consumer (security_db_writer.py   *)
(* over security_db_queries.py) and the orchestrator (security_orc.py),    *)
(* connected by the multiprocessing queues db_writer_queue and             *)
(* vlm_task_queue.                                                         *)
(*                                                                         *)
(* Time is counted in whole seconds.  uuid4 and ObjectId values are        *)
(* modelled by counters: every call returns a value never returned before. *)
(***************************************************************************)
EXTENDS Integers, Sequences, FiniteSets, TLC

\* ---------------------------------------------------------------- bounds
\* Seconds of clock the model follows after start-up.
Horizon == 6
\* Number of uuid4 values (persistent subject ids) drawn in one run.
MaxSubjects == 2
\* Number of ObjectId values (event ids) drawn in one run.
MaxEvents == 2
\* Cap on the length of db_writer_queue (the queue itself is unbounded).
MaxQueue == 4
\* Cap on the length of vlm_task_queue (the queue itself is unbounded).
MaxTasks == 2
\* Seconds of clock the model follows when all the processes run together.
SysHorizon == 1
\* Number of items the producers put when a consumer is followed on its own.
MaxPuts == 3
\* Number of store calls and analysis calls that raise in one run of the system.
MaxFaults == 1

\* ------------------------------------------------------ program constants
POSE_CONFIRMATION_SEC == 1
VLM_INTERVAL_SEC == 5
LEFT_SHOULDER == 5
RIGHT_SHOULDER == 6
LEFT_HIP == 11
RIGHT_HIP == 12
\* keypoint confidence threshold 0.5, in percent
ConfThresholdPct == 50
\* ground_threshold_percent = 0.55, in percent
GroundThresholdPct == 55

\* ------------------------------------------------------------ value sets
NoTime == 0 - 1
NoId == 0
\* time.time() is seconds since 1970: far above VLM_INTERVAL_SEC at start-up.
StartTime == VLM_INTERVAL_SEC
MaxTime == StartTime + Horizon
\* transient track ids the tracker hands out
TrackIds == {1, 2}
\* the track ids it hands out when all the processes run together
SysTrackIds == {1}
PersonIds == 1..MaxSubjects
EventIds == 1..MaxEvents
Torso == {LEFT_SHOULDER, RIGHT_SHOULDER, LEFT_HIP, RIGHT_HIP}
\* two keypoint readings in a frame 100 pixels high: torso low in the frame
\* with confident keypoints, and torso high in the frame
LyingKeypoints == [k \in Torso |-> [y |-> 80, conf |-> 90]]
StandingKeypoints == [k \in Torso |-> [y |-> 30, conf |-> 90]]
KeypointSamples == {LyingKeypoints, StandingKeypoints}
FrameHeights == {100}

VARIABLES
  clock,              \* the value time.time() returns
  tracked_subjects,   \* dict yolo id -> subject, in insertion order
  active_event,       \* the single system-wide event
  uuid_next,          \* next unused uuid4 value
  oid_next,           \* next unused ObjectId value
  db_writer_queue,    \* persistence channel
  vlm_task_queue,     \* analysis-task channel
  frame,              \* the frame taken by the last step, if it took one:
                      \* the track ids observed and the messages put, in order
  ev_phase,           \* per event id: what the emitted commands did to it
  max_open,           \* most events ever open at once in the emitted commands
  last_task,          \* per open event id: clock of its last analysis task
  task_gap,           \* per open event id: seconds between its last two tasks
  held_since,         \* per subject: start of its unbroken pose-true run
  task_queue,         \* orchestrator -> worker control channel
  store,              \* the MongoDB collections TrackedSubjects, Events, VlmLogs
  det_pc,             \* detection loop process: running / terminated
  db_pc,              \* persistence consumer: position in db_writer_process
  db_task,            \* the command the persistence consumer has in hand
  w_pc,               \* analysis worker: position in background_ai_worker
  w_task,             \* the task the analysis worker has in hand
  orch_pc,            \* orchestrator: position in main
  faults,             \* number of store calls and analysis calls that raised
  hist_on,            \* whether the channel histories below are recorded
  db_input,           \* every item put on db_writer_queue, in put order
  db_taken,           \* every item taken from db_writer_queue, in get order
  db_done,            \* every command whose dispatch has finished, with outcome
  vlm_input,          \* every item put on vlm_task_queue, in put order
  w_outcomes,         \* every task the worker has handled, with outcome
  pose_call           \* a call of is_person_on_ground_yolo followed on its own:
                      \* its arguments and, once it has returned, its result

detState == <<clock, tracked_subjects, active_event, uuid_next, oid_next,
              ev_phase, max_open, last_task, task_gap, held_since>>
detVars == <<detState, frame>>
histVars == <<hist_on, db_input, db_taken, db_done, vlm_input, w_outcomes>>
procVars == <<task_queue, store, det_pc, db_pc, db_task, w_pc, w_task, orch_pc,
              faults>>
vars == <<detVars, db_writer_queue, vlm_task_queue, procVars, histVars, pose_call>>

\* ---------------------------------------------------------------- helpers
RECURSIVE SumSeq(_)
SumSeq(s) == IF s = <<>> THEN 0 ELSE Head(s) + SumSeq(Tail(s))

RECURSIVE SeqsOfSet(_)
\* every order in which a Python set can be iterated
SeqsOfSet(S) ==
  IF S = {} THEN {<<>>}
  ELSE UNION {{<<x>> \o r : r \in SeqsOfSet(S \ {x})} : x \in S}

Range(s) == {s[i] : i \in DOMAIN s}

\* a message of either queue; unused fields hold NoId, "" or <<>>
Msg(a, e, p, st, subs) ==
  [action |-> a, event_id |-> e, tracking_id |-> p, status |-> st, subjects |-> subs]
Put(q, m) == [queue |-> q, msg |-> m]

CreateNewSubjectCmd(p) == Msg("create_new_subject", NoId, p, "", <<>>)
UpdateSubjectStatusCmd(p, st) == Msg("update_subject_status", NoId, p, st, <<>>)
CreateEventCmd(e, p) == Msg("create_event", e, p, "", <<>>)
EndEventCmd(e) == Msg("end_event", e, 0, "", <<>>)
AddParticipantCmd(e, p) == Msg("add_participant_to_event", e, p, "", <<>>)
AnalyzeThreatTask(e, subs) == Msg("analyze_threat", e, 0, "", subs)
AddVlmLogCmd(e, subs) == Msg("add_vlm_log", e, 0, "", subs)
\* {'action': 'shutdown'} on db_writer_queue, {'task': 'shutdown'} on task_queue
ShutdownMsg == Msg("shutdown", NoId, 0, "", <<>>)
\* the item None
NoneItem == Msg("None", NoId, 0, "", <<>>)
\* a command whose action the persistence consumer does not route
UnknownCmd == Msg("archive_event", NoId, 0, "", <<>>)
\* a task of vlm_task_queue whose type is not analyze_threat
OtherTask == Msg("summarize", NoId, 0, "", <<>>)
\* no command or task in hand
NoTask == Msg("", NoId, 0, "", <<>>)

\* the messages of one queue among a frame's puts, in order
PutsOn(out, q) ==
  LET sel == SelectSeq(out, LAMBDA x : x.queue = q)
  IN [i \in DOMAIN sel |-> sel[i].msg]

\* ------------------------------------------------- is_person_on_ground_yolo
\* a heuristic that also takes a torso exactly on the threshold line
is_person_on_ground_yolo_Inclusive(keypoints, frame_height) ==
  LET order == <<LEFT_SHOULDER, RIGHT_SHOULDER, LEFT_HIP, RIGHT_HIP>>
      valid == SelectSeq(order, LAMBDA k : keypoints[k].conf > ConfThresholdPct)
      valid_points_y == [i \in DOMAIN valid |-> keypoints[valid[i]].y]
  IN IF Len(valid_points_y) < 2 THEN FALSE
     ELSE 100 * SumSeq(valid_points_y) >= GroundThresholdPct * frame_height * Len(valid_points_y)

is_person_on_ground_yolo(keypoints, frame_height) ==
  LET order == <<LEFT_SHOULDER, RIGHT_SHOULDER, LEFT_HIP, RIGHT_HIP>>
      valid == SelectSeq(order, LAMBDA k : keypoints[k].conf > ConfThresholdPct)
      valid_points_y == [i \in DOMAIN valid |-> keypoints[valid[i]].y]
  IN IF Len(valid_points_y) < 2 THEN FALSE
     ELSE \* avg_torso_y > frame_height * 0.55, cleared of the division
          100 * SumSeq(valid_points_y) > GroundThresholdPct * frame_height * Len(valid_points_y)

\* no call followed
NoCall == [evaluated |-> FALSE]

\* ------------------------------------------------ threat_detection_process
NewSubject(y, p) ==
  [yolo |-> y, tracking_id |-> p, status |-> "normal",
   pose_start_time |-> NoTime, is_confirmed_suspicious |-> FALSE]

IndexOf(ts, y) ==
  IF \E i \in DOMAIN ts : ts[i].yolo = y
  THEN CHOOSE i \in DOMAIN ts : ts[i].yolo = y
  ELSE 0

\* a confirmation that does not wait for the window
ConfirmCond_NoWindow(subject, now) ==
  subject.status = "pending"

\* line 165: the pose has been held for the confirmation window
ConfirmCond(subject, now) ==
  /\ subject.status = "pending"
  /\ now - subject.pose_start_time >= POSE_CONFIRMATION_SEC

\* a pose-true branch that reports a Suspicious subject again on every frame
PoseTrue_Reconfirms(subject, now) ==
  IF subject.status = "normal"
  THEN [subject |-> [subject EXCEPT !.status = "pending", !.pose_start_time = now],
        out |-> <<>>]
  ELSE IF now - subject.pose_start_time >= POSE_CONFIRMATION_SEC
  THEN [subject |-> [subject EXCEPT !.status = "suspicious",
                                    !.is_confirmed_suspicious = TRUE],
        out |-> <<Put("db", UpdateSubjectStatusCmd(subject.tracking_id, "suspicious"))>>]
  ELSE [subject |-> subject, out |-> <<>>]

\* lines 161-174: the pose is seen on this frame
PoseTrue(subject, now) ==
  IF subject.status = "normal"
  THEN [subject |-> [subject EXCEPT !.status = "pending", !.pose_start_time = now],
        out |-> <<>>]
  ELSE IF ConfirmCond(subject, now) /\ ~subject.is_confirmed_suspicious
  THEN [subject |-> [subject EXCEPT !.status = "suspicious",
                                    !.is_confirmed_suspicious = TRUE],
        out |-> <<Put("db", UpdateSubjectStatusCmd(subject.tracking_id, "suspicious"))>>]
  ELSE [subject |-> subject, out |-> <<>>]

\* a pose-false branch that reports the return to Normal of a Suspicious
\* subject only
PoseFalse_SilentForPending(subject) ==
  IF subject.status # "normal"
  THEN [subject |-> [subject EXCEPT !.status = "normal", !.pose_start_time = NoTime,
                                    !.is_confirmed_suspicious = FALSE],
        out |-> IF subject.status = "suspicious"
                THEN <<Put("db", UpdateSubjectStatusCmd(subject.tracking_id, "normal"))>>
                ELSE <<>>]
  ELSE [subject |-> subject, out |-> <<>>]

\* a pose-false branch that leaves the pose timer running
PoseFalse_KeepsTimer(subject) ==
  IF subject.status # "normal"
  THEN [subject |-> [subject EXCEPT !.status = "normal",
                                    !.is_confirmed_suspicious = FALSE],
        out |-> <<Put("db", UpdateSubjectStatusCmd(subject.tracking_id, "normal"))>>]
  ELSE [subject |-> subject, out |-> <<>>]

\* lines 175-185: the pose is not seen on this frame
PoseFalse(subject) ==
  IF subject.status # "normal"
  THEN [subject |-> [subject EXCEPT !.status = "normal", !.pose_start_time = NoTime,
                                    !.is_confirmed_suspicious = FALSE],
        out |-> <<Put("db", UpdateSubjectStatusCmd(subject.tracking_id, "normal"))>>]
  ELSE [subject |-> subject, out |-> <<>>]

\* lines 136-185: the loop body for one tracked person
\* lines 138-156 with the persistent id of the last subject given again
ProcessPerson_SameId(st, o, frame_height, now) ==
  LET isNew == IndexOf(st.tracked, o.id) = 0
      ts1 == IF isNew THEN Append(st.tracked, NewSubject(o.id, st.uuid)) ELSE st.tracked
      out1 == IF isNew THEN Append(st.out, Put("db", CreateNewSubjectCmd(st.uuid)))
              ELSE st.out
      i == IndexOf(ts1, o.id)
      r == IF is_person_on_ground_yolo(o.keypoints, frame_height)
           THEN PoseTrue(ts1[i], now)
           ELSE PoseFalse(ts1[i])
  IN [tracked |-> [ts1 EXCEPT ![i] = r.subject],
      uuid |-> st.uuid,
      out |-> out1 \o r.out]

ProcessPerson(st, o, frame_height, now) ==
  LET isNew == IndexOf(st.tracked, o.id) = 0
      ts1 == IF isNew THEN Append(st.tracked, NewSubject(o.id, st.uuid)) ELSE st.tracked
      out1 == IF isNew THEN Append(st.out, Put("db", CreateNewSubjectCmd(st.uuid)))
              ELSE st.out
      i == IndexOf(ts1, o.id)
      r == IF is_person_on_ground_yolo(o.keypoints, frame_height)
           THEN PoseTrue(ts1[i], now)
           ELSE PoseFalse(ts1[i])
  IN [tracked |-> [ts1 EXCEPT ![i] = r.subject],
      uuid |-> IF isNew THEN st.uuid + 1 ELSE st.uuid,
      out |-> out1 \o r.out]

RECURSIVE UpdateSubjectStates(_, _, _, _)
\* lines 135-185: for i, yolo_track_id in enumerate(yolo_track_ids)
UpdateSubjectStates(st, obs, frame_height, now) ==
  IF obs = <<>> THEN st
  ELSE UpdateSubjectStates(ProcessPerson(st, Head(obs), frame_height, now),
                           Tail(obs), frame_height, now)

\* a clean-up that removes nothing
CleanUpLostTracks_KeepsAll(ts, current_track_ids) ==
  ts

\* a clean-up that keeps a lost subject while it is suspicious
CleanUpLostTracks_KeepsSuspicious(ts, current_track_ids) ==
  SelectSeq(ts, LAMBDA s : s.yolo \in current_track_ids \/ s.status = "suspicious")

\* lines 188-191: clean up lost tracks
CleanUpLostTracks(ts, current_track_ids) ==
  SelectSeq(ts, LAMBDA s : s.yolo \in current_track_ids)

\* line 194
SuspiciousSubjects(ts) == SelectSeq(ts, LAMBDA s : s.status = "suspicious")

\* a start that does not look at the event's status
StartCond_IgnoresStatus(suspicious_subjects, ev) ==
  suspicious_subjects # <<>>

\* line 197
StartCond(suspicious_subjects, ev) ==
  suspicious_subjects # <<>> /\ ev.status = "inactive"

\* a start that leaves last_vlm_trigger_time as the previous event left it
StartEvent_KeepsTimer(suspicious_subjects, ev, oid) ==
  [ev |-> [ev EXCEPT !.status = "active", !.id = oid,
                     !.participants = @ \cup {suspicious_subjects[1].tracking_id}],
   out |-> <<Put("db", CreateEventCmd(oid, suspicious_subjects[1].tracking_id))>>]

\* a start that takes every Suspicious subject as participant at once
StartEvent_SeedsAll(suspicious_subjects, ev, oid) ==
  [ev |-> [ev EXCEPT !.status = "active", !.id = oid,
                     !.participants = {x.tracking_id : x \in Range(suspicious_subjects)},
                     !.last_vlm_trigger_time = 0],
   out |-> <<Put("db", CreateEventCmd(oid, suspicious_subjects[1].tracking_id))>>]

\* lines 198-209
StartEvent(suspicious_subjects, ev, oid) ==
  [ev |-> [ev EXCEPT !.status = "active", !.id = oid,
                     !.participants = @ \cup {suspicious_subjects[1].tracking_id},
                     !.last_vlm_trigger_time = 0],
   out |-> <<Put("db", CreateEventCmd(oid, suspicious_subjects[1].tracking_id))>>]

\* an end that does not look at the Suspicious subjects
EndCond_AnyActive(suspicious_subjects, ev) ==
  ev.status = "active"

\* an event that is never ended
EndCond_Never(suspicious_subjects, ev) == FALSE

\* line 212
EndCond(suspicious_subjects, ev) ==
  suspicious_subjects = <<>> /\ ev.status = "active"

\* an end that emits end_event and leaves the in-memory event active
EndEvent_StaysActive(ev) ==
  [ev |-> ev, out |-> <<Put("db", EndEventCmd(ev.id))>>]

\* lines 213-220
EndEvent(ev) ==
  [ev |-> [ev EXCEPT !.status = "inactive", !.id = NoId, !.participants = {}],
   out |-> <<Put("db", EndEventCmd(ev.id))>>]

\* an escalation that waits for more than the interval
EscalateCond_Strict(ev, now) ==
  ev.status = "active" /\ now - ev.last_vlm_trigger_time > VLM_INTERVAL_SEC

\* line 223
EscalateCond(ev, now) ==
  ev.status = "active" /\ now - ev.last_vlm_trigger_time >= VLM_INTERVAL_SEC

\* an escalation pass that finds nobody new
NewParticipants_Nobody(suspicious_subjects, ev) ==
  {}

\* line 227
\* a pass that takes every Suspicious subject for new
NewParticipants_AllSuspicious(suspicious_subjects, ev) ==
  {s.tracking_id : s \in Range(suspicious_subjects)}

NewParticipants(suspicious_subjects, ev) ==
  {s.tracking_id : s \in Range(suspicious_subjects)} \ ev.participants

\* an escalation pass that keeps as participants only the subjects that are
\* Suspicious now
Escalate_OnlyCurrent(suspicious_subjects, ev, now, order) ==
  [ev |-> [ev EXCEPT !.participants = {x.tracking_id : x \in Range(suspicious_subjects)},
                     !.last_vlm_trigger_time = now],
   out |-> [i \in DOMAIN order |-> Put("db", AddParticipantCmd(ev.id, order[i]))]
           \o <<Put("vlm", AnalyzeThreatTask(ev.id,
                   [i \in DOMAIN suspicious_subjects |->
                      [tracking_id |-> suspicious_subjects[i].tracking_id]]))>>]

\* an escalation pass that puts the task before it records the participants
Escalate_TaskFirst(suspicious_subjects, ev, now, order) ==
  [ev |-> [ev EXCEPT !.participants = @ \cup Range(order),
                     !.last_vlm_trigger_time = now],
   out |-> <<Put("vlm", AnalyzeThreatTask(ev.id,
                   [i \in DOMAIN suspicious_subjects |->
                      [tracking_id |-> suspicious_subjects[i].tracking_id]]))>>
           \o [i \in DOMAIN order |-> Put("db", AddParticipantCmd(ev.id, order[i]))]]

\* an escalation pass that does not record when it ran
Escalate_NoTimestamp(suspicious_subjects, ev, now, order) ==
  [ev |-> [ev EXCEPT !.participants = @ \cup Range(order)],
   out |-> [i \in DOMAIN order |-> Put("db", AddParticipantCmd(ev.id, order[i]))]
           \o <<Put("vlm", AnalyzeThreatTask(ev.id,
                   [i \in DOMAIN suspicious_subjects |->
                      [tracking_id |-> suspicious_subjects[i].tracking_id]]))>>]

\* lines 224-247; order is the order in which the set new_participants is iterated
\* a pass that emits the task and records nobody
Escalate_TaskOnly(suspicious_subjects, ev, now, order) ==
  [ev |-> [ev EXCEPT !.last_vlm_trigger_time = now],
   out |-> <<Put("vlm", AnalyzeThreatTask(ev.id,
                   [i \in DOMAIN suspicious_subjects |->
                      [tracking_id |-> suspicious_subjects[i].tracking_id]]))>>]

Escalate(suspicious_subjects, ev, now, order) ==
  [ev |-> [ev EXCEPT !.participants = @ \cup Range(order),
                     !.last_vlm_trigger_time = now],
   out |-> [i \in DOMAIN order |-> Put("db", AddParticipantCmd(ev.id, order[i]))]
           \o <<Put("vlm", AnalyzeThreatTask(ev.id,
                   [i \in DOMAIN suspicious_subjects |->
                      [tracking_id |-> suspicious_subjects[i].tracking_id]]))>>]

\* ------------------------------------------ observers of the emitted messages
\* what one persistence command does to the life of the event it names
PhaseAfter(phase, action) ==
  CASE phase \notin {"none", "open", "ended"} -> phase
    [] action = "create_event" -> IF phase = "none" THEN "open" ELSE "created_twice"
    [] action = "end_event" ->
         IF phase = "open" THEN "ended"
         ELSE IF phase = "ended" THEN "ended_twice" ELSE "ended_unopened"
    [] action = "add_participant_to_event" ->
         IF phase = "open" THEN "open"
         ELSE IF phase = "ended" THEN "added_after_end" ELSE "added_unopened"
    [] action = "analyze_threat" ->
         IF phase = "open" THEN "open"
         ELSE IF phase = "ended" THEN "task_after_end" ELSE "task_unopened"
    [] OTHER -> phase

RECURSIVE ObserveEvents(_, _)
\* folds a frame's puts into [phase, max_open]
ObserveEvents(o, out) ==
  IF out = <<>> THEN o
  ELSE LET m == Head(out).msg
           ph == IF m.event_id \in EventIds
                 THEN [o.phase EXCEPT ![m.event_id] = PhaseAfter(@, m.action)]
                 ELSE o.phase
           n == Cardinality({e \in EventIds : ph[e] = "open"})
       IN ObserveEvents([phase |-> ph,
                         max_open |-> IF n > o.max_open THEN n ELSE o.max_open],
                        Tail(out))

TasksFor(out, e) ==
  SelectSeq(PutsOn(out, "vlm"), LAMBDA m : m.action = "analyze_threat" /\ m.event_id = e)

RECURSIVE ObserveTasks(_, _, _)
\* folds the analysis tasks of a frame taken at clock now into [last, gap]
ObserveTasks(o, tasks, now) ==
  IF tasks = <<>> THEN o
  ELSE LET e == Head(tasks).event_id
       IN ObserveTasks(
            IF e \notin EventIds THEN o
            ELSE [last |-> [o.last EXCEPT ![e] = now],
                  gap |-> [o.gap EXCEPT ![e] = IF o.last[e] = NoTime THEN @
                                                ELSE now - o.last[e]]],
            Tail(tasks), now)

\* an event that is not open has no task history
OpenOnly(f, phase) == [e \in EventIds |-> IF phase[e] = "open" THEN f[e] ELSE NoTime]

\* the start of each tracked subject's unbroken run of pose-true observations:
\* a frame that does not observe the subject leaves it as it is
ObserveHeld(hs, obs, frame_height, ts_after, now) ==
  [p \in PersonIds |->
     IF \A i \in DOMAIN ts_after : ts_after[i].tracking_id # p THEN NoTime
     ELSE LET y == ts_after[CHOOSE i \in DOMAIN ts_after : ts_after[i].tracking_id = p].yolo
              seen == {i \in DOMAIN obs : obs[i].id = y}
          IN IF seen = {} THEN hs[p]
             ELSE IF \E i \in seen : ~is_person_on_ground_yolo(obs[i].keypoints, frame_height)
             THEN NoTime
             ELSE IF hs[p] = NoTime THEN now
             ELSE hs[p]]

\* ----------------------------------------------------------------- inputs
\* the tracker's output for one frame: the tracked persons in the order the
\* tracker lists them, each with its keypoints; <<>> is results.boxes.id = None
ObservationsOf(track_ids) ==
  UNION {{[i \in DOMAIN ids |-> [id |-> ids[i], keypoints |-> kp[i]]] :
            kp \in [DOMAIN ids -> KeypointSamples]} :
         ids \in UNION {SeqsOfSet(S) : S \in SUBSET track_ids}}
Observations == ObservationsOf(TrackIds)
SysObservations == ObservationsOf(SysTrackIds)

\* no frame was taken by the last step
NoFrame == [kind |-> "none", ids |-> {}, out |-> <<>>]

\* ------------------------------------------------ the store (DatabaseManager)
EmptyStore == [subjects |-> <<>>, events |-> <<>>, vlm_logs |-> <<>>]

\* update_one: the index of the first matching document, 0 if there is none
FirstSubject(st, tracking_id) ==
  LET I == {i \in DOMAIN st.subjects : st.subjects[i].tracking_id = tracking_id}
  IN IF I = {} THEN 0 ELSE CHOOSE i \in I : \A j \in I : i <= j

\* _id is unique in a collection: at most one document has a given _id
EventIndex(st, event_id) ==
  LET I == {i \in DOMAIN st.events : st.events[i].id = event_id}
  IN IF I = {} THEN 0 ELSE CHOOSE i \in I : TRUE

create_new_subject(st, tracking_id) ==
  [st EXCEPT !.subjects = Append(@, [tracking_id |-> tracking_id,
                                     current_status |-> "normal"])]

update_subject_status(st, tracking_id, status) ==
  LET i == FirstSubject(st, tracking_id)
  IN IF i = 0 THEN st ELSE [st EXCEPT !.subjects[i].current_status = status]

\* an insert that leaves the participant list empty
create_event_NoSeed(st, event_id, participant_tracking_id) ==
  [st EXCEPT !.events = Append(@, [id |-> event_id, status |-> "active",
                                   participant_tracking_ids |-> <<>>])]

\* insert_one with the caller's _id
create_event(st, event_id, participant_tracking_id) ==
  [st EXCEPT !.events = Append(@, [id |-> event_id, status |-> "active",
                                   participant_tracking_ids |->
                                     <<participant_tracking_id>>])]

\* $push on the matching event
add_participant_to_event_Push(st, event_id, tracking_id) ==
  LET i == EventIndex(st, event_id)
  IN IF i = 0 THEN st
     ELSE [st EXCEPT !.events[i].participant_tracking_ids = Append(@, tracking_id)]

\* $addToSet on the matching event
add_participant_to_event(st, event_id, tracking_id) ==
  LET i == EventIndex(st, event_id)
  IN IF i = 0 \/ tracking_id \in Range(st.events[i].participant_tracking_ids)
     THEN st
     ELSE [st EXCEPT !.events[i].participant_tracking_ids = Append(@, tracking_id)]

end_event(st, event_id) ==
  LET i == EventIndex(st, event_id)
  IN IF i = 0 THEN st ELSE [st EXCEPT !.events[i].status = "ended_cleared"]

add_vlm_log(st, event_id, subjects) ==
  [st EXCEPT !.vlm_logs = Append(@, [event_id |-> event_id,
                                     subjects_in_log |-> subjects])]

\* ------------------------------------- the persistence consumer's operators
RoutedActions == {"create_event", "add_participant_to_event", "end_event",
                  "add_vlm_log", "create_new_subject", "update_subject_status"}

\* a loop that only None ends
IsSentinel_OnlyNone(task) == task = NoneItem

\* line 29: task is None or task.get('action') == 'shutdown'
IsSentinel(task) == task = NoneItem \/ task.action = "shutdown"

\* the store after the DatabaseManager call the command is routed to returns
Dispatch(st, task) ==
  CASE task.action = "create_event" ->
         create_event(st, task.event_id, task.tracking_id)
    [] task.action = "add_participant_to_event" ->
         add_participant_to_event(st, task.event_id, task.tracking_id)
    [] task.action = "end_event" -> end_event(st, task.event_id)
    [] task.action = "add_vlm_log" -> add_vlm_log(st, task.event_id, task.subjects)
    [] task.action = "create_new_subject" -> create_new_subject(st, task.tracking_id)
    [] task.action = "update_subject_status" ->
         update_subject_status(st, task.tracking_id, task.status)
    [] OTHER -> st

\* how the dispatch of one command can end: the call returns, the call raises
\* (any call can: the server is unreachable; insert_one of an _id already
\* present always does), or the action is not routed
Outcomes(st, task, may_fail) ==
  IF task.action \notin RoutedActions THEN {"unknown"}
  ELSE IF task.action = "create_event" /\ EventIndex(st, task.event_id) # 0
       THEN {"raised"}
       ELSE IF may_fail THEN {"applied", "raised"} ELSE {"applied"}

\* a raising call leaves the collection as it was
StoreAfter(st, task, outcome) ==
  IF outcome = "applied" THEN Dispatch(st, task) ELSE st

\* the head of a multiprocessing.Queue and what stays behind it
Dequeue_Lifo(q) == [item |-> q[Len(q)], rest |-> SubSeq(q, 1, Len(q) - 1)]

Dequeue(q) == [item |-> Head(q), rest |-> Tail(q)]

\* where db_writer_process goes after a dispatch: lines 56-57 catch every
\* Exception inside the loop, so the loop goes on to the next get
AfterDispatch_BreaksOnError(outcome) ==
  IF outcome = "applied" THEN "get" ELSE "closed"

AfterDispatch(outcome) == "get"

\* ------------------------------------------- the analysis worker's operators
\* line 38: subjects_in_log
\* line 38 with the first subject of the task only
SubjectsInLog_FirstOnly(payload_subjects) ==
  [i \in DOMAIN payload_subjects \cap {1} |-> payload_subjects[i].tracking_id]

SubjectsInLog(payload_subjects) ==
  [i \in DOMAIN payload_subjects |-> payload_subjects[i].tracking_id]

\* run_vlm_analysis: ok tells whether every call of the try block returned
\* (screen grab, image encoding, the chat completion); the put is the last
\* statement of the try block
run_vlm_analysis_PutsFirst(st, q, payload, ok) ==
  [store |-> st,
   queue |-> Append(q, AddVlmLogCmd(payload.event_id, SubjectsInLog(payload.subjects)))]

\* an analysis whose log overtakes the commands already waiting
run_vlm_analysis_PutsAtHead(st, q, payload, ok) ==
  [store |-> st,
   queue |-> IF ok
             THEN <<AddVlmLogCmd(payload.event_id, SubjectsInLog(payload.subjects))>> \o q
             ELSE q]

run_vlm_analysis_WritesStore(st, q, payload, ok) ==
  [store |-> IF ok THEN add_vlm_log(st, payload.event_id, SubjectsInLog(payload.subjects))
             ELSE st,
   queue |-> q]

run_vlm_analysis(st, q, payload, ok) ==
  [store |-> st,
   queue |-> IF ok
             THEN Append(q, AddVlmLogCmd(payload.event_id, SubjectsInLog(payload.subjects)))
             ELSE q]

\* the calls that may still raise: where a consumer is followed on its own
\* every call may, in the whole system MaxFaults of them
MayFail == hist_on \/ faults < MaxFaults

\* history variables grow only where they are recorded
Record(h, x) == IF hist_on THEN Append(h, x) ELSE h

InitProcesses ==
  /\ task_queue = <<>>
  /\ store = EmptyStore
  /\ det_pc = "running"
  /\ db_pc = "start"
  /\ db_task = NoTask
  /\ w_pc = "start"
  /\ w_task = NoTask
  /\ orch_pc = "sleep"
  /\ faults = 0

InitHistory ==
  /\ db_input = <<>>
  /\ db_taken = <<>>
  /\ db_done = <<>>
  /\ vlm_input = <<>>
  /\ w_outcomes = <<>>

\* ---------------------------------------------------------------- actions
Init ==
  /\ clock = StartTime
  /\ tracked_subjects = <<>>
  /\ active_event = [id |-> NoId, status |-> "inactive",
                     last_vlm_trigger_time |-> 0, participants |-> {}]
  /\ uuid_next = 1
  /\ oid_next = 1
  /\ db_writer_queue = <<>>
  /\ vlm_task_queue = <<>>
  /\ frame = NoFrame
  /\ ev_phase = [e \in EventIds |-> "none"]
  /\ max_open = 0
  /\ last_task = [e \in EventIds |-> NoTime]
  /\ task_gap = [e \in EventIds |-> NoTime]
  /\ held_since = [p \in PersonIds |-> NoTime]
  /\ InitProcesses
  /\ hist_on = FALSE
  /\ pose_call = NoCall
  /\ InitHistory

\* time passes between two reads of time.time()
Advance(limit) ==
  /\ clock < limit
  /\ clock' = clock + 1
  /\ frame' = NoFrame
  /\ UNCHANGED <<tracked_subjects, active_event, uuid_next, oid_next,
                 db_writer_queue, vlm_task_queue,
                 ev_phase, max_open, last_task, task_gap, held_since>>
  /\ UNCHANGED <<procVars, histVars, pose_call>>

Tick == Advance(MaxTime)
SysTick == Advance(StartTime + SysHorizon)

\* a frame with no tracked person that still runs the clean-up of lost tracks
FrameSkipped_CleansUp ==
  /\ det_pc = "running"
  /\ frame' = [kind |-> "skipped", ids |-> {}, out |-> <<>>]
  /\ tracked_subjects' = CleanUpLostTracks(tracked_subjects, {})
  /\ UNCHANGED <<clock, active_event, uuid_next, oid_next,
                 db_writer_queue, vlm_task_queue,
                 ev_phase, max_open, last_task, task_gap, held_since>>
  /\ UNCHANGED <<procVars, histVars, pose_call>>

\* lines 118-128: a frame in which the tracker reports no tracked person
FrameSkipped ==
  /\ det_pc = "running"
  /\ frame' = [kind |-> "skipped", ids |-> {}, out |-> <<>>]
  /\ UNCHANGED <<clock, tracked_subjects, active_event, uuid_next, oid_next,
                 db_writer_queue, vlm_task_queue,
                 ev_phase, max_open, last_task, task_gap, held_since>>
  /\ UNCHANGED <<procVars, histVars, pose_call>>

\* lines 118-247: a frame with tracked persons; its puts are frame'.out
Frame(observations) ==
  /\ det_pc = "running"
  /\ \E obs \in observations \ {<<>>} : \E frame_height \in FrameHeights :
    \E st2 \in {UpdateSubjectStates([tracked |-> tracked_subjects, uuid |-> uuid_next,
                                     out |-> <<>>], obs, frame_height, clock)} :
    \E ts3 \in {CleanUpLostTracks(st2.tracked, {obs[i].id : i \in DOMAIN obs})} :
    \E suspicious_subjects \in {SuspiciousSubjects(ts3)} :
    \E r4 \in {IF StartCond(suspicious_subjects, active_event)
               THEN StartEvent(suspicious_subjects, active_event, oid_next)
               ELSE [ev |-> active_event, out |-> <<>>]} :
    \E r5 \in {IF EndCond(suspicious_subjects, r4.ev) THEN EndEvent(r4.ev)
               ELSE [ev |-> r4.ev, out |-> <<>>]} :
    \E order \in (IF EscalateCond(r5.ev, clock)
                  THEN SeqsOfSet(NewParticipants(suspicious_subjects, r5.ev))
                  ELSE {<<>>}) :
    \E r6 \in {IF EscalateCond(r5.ev, clock)
               THEN Escalate(suspicious_subjects, r5.ev, clock, order)
               ELSE [ev |-> r5.ev, out |-> <<>>]} :
    \E out \in {st2.out \o r4.out \o r5.out \o r6.out} :
    \E seen \in {ObserveEvents([phase |-> ev_phase, max_open |-> max_open], out)} :
    \E tasks \in {ObserveTasks([last |-> last_task, gap |-> task_gap],
                               PutsOn(out, "vlm"), clock)} :
      /\ st2.uuid <= MaxSubjects + 1
      /\ r4.ev.id <= MaxEvents
      /\ tracked_subjects' = ts3
      /\ active_event' = r6.ev
      /\ uuid_next' = st2.uuid
      /\ oid_next' = IF StartCond(suspicious_subjects, active_event)
                     THEN oid_next + 1 ELSE oid_next
      /\ frame' = [kind |-> "processed", ids |-> {obs[i].id : i \in DOMAIN obs},
                   out |-> out]
      /\ ev_phase' = seen.phase
      /\ max_open' = seen.max_open
      /\ last_task' = OpenOnly(tasks.last, seen.phase)
      /\ task_gap' = OpenOnly(tasks.gap, seen.phase)
      /\ held_since' = ObserveHeld(held_since, obs, frame_height, ts3, clock)
      /\ UNCHANGED <<clock, procVars, histVars, pose_call>>

\* lines 118-247 as a function of the loop's own state and the frame alone:
\* the outcomes of one processed frame
DetectionStep(ts, ev, uuid, oid, now, obs, frame_height) ==
  LET st2 == UpdateSubjectStates([tracked |-> ts, uuid |-> uuid, out |-> <<>>],
                                 obs, frame_height, now)
      ts3 == CleanUpLostTracks(st2.tracked, {obs[i].id : i \in DOMAIN obs})
      sus == SuspiciousSubjects(ts3)
      start == StartCond(sus, ev)
      r4 == IF start THEN StartEvent(sus, ev, oid) ELSE [ev |-> ev, out |-> <<>>]
      r5 == IF EndCond(sus, r4.ev) THEN EndEvent(r4.ev)
            ELSE [ev |-> r4.ev, out |-> <<>>]
      esc == EscalateCond(r5.ev, now)
      passes == IF esc
                THEN {Escalate(sus, r5.ev, now, order) :
                        order \in SeqsOfSet(NewParticipants(sus, r5.ev))}
                ELSE {[ev |-> r5.ev, out |-> <<>>]}
  IN  {[tracked |-> ts3, ev |-> r6.ev, uuid |-> st2.uuid,
        oid |-> IF start THEN oid + 1 ELSE oid,
        ids |-> {obs[i].id : i \in DOMAIN obs},
        out |-> st2.out \o r4.out \o r5.out \o r6.out] : r6 \in passes}

\* the detection loop alone: its puts are followed in frame.out only
FrameAlone ==
  /\ Frame(Observations)
  /\ UNCHANGED <<db_writer_queue, vlm_task_queue>>

\* security_orc.py lines 26-27: both queues are made by multiprocessing.Queue()
\* with no argument, that is with maxsize 0: a queue without a limit
QueueMaxsize == 0

\* queues made with maxsize 1
PutBlocks_Bounded(q, n) == Len(q) + n > 1

\* put(): the caller waits while the queue has a limit and is at it
PutBlocks(q, n) == QueueMaxsize > 0 /\ Len(q) + n > QueueMaxsize

\* the detection loop in the running system: the puts reach the queues
FrameProcessedOn(observations) ==
  /\ Frame(observations)
  /\ ~PutBlocks(db_writer_queue, Len(PutsOn(frame'.out, "db")))
  /\ ~PutBlocks(vlm_task_queue, Len(PutsOn(frame'.out, "vlm")))
  /\ Len(db_writer_queue) + Len(PutsOn(frame'.out, "db")) <= MaxQueue
  /\ Len(vlm_task_queue) + Len(PutsOn(frame'.out, "vlm")) <= MaxTasks
  /\ db_writer_queue' = db_writer_queue \o PutsOn(frame'.out, "db")
  /\ vlm_task_queue' = vlm_task_queue \o PutsOn(frame'.out, "vlm")

FrameProcessed == FrameProcessedOn(SysObservations)

\* ------------------------------------------- persistence consumer (db_writer)
\* lines 17-22: DatabaseManager(MONGO_URI, DB_NAME) returns or raises
DbWriterStart ==
  /\ db_pc = "start"
  /\ \E ok \in BOOLEAN : db_pc' = IF ok THEN "get" ELSE "init_failed"
  /\ frame' = NoFrame
  /\ UNCHANGED <<detState, db_writer_queue, vlm_task_queue, histVars, pose_call,
                 task_queue, store, det_pc, db_task, w_pc, w_task, orch_pc, faults>>

\* lines 27-34: the blocking get; a sentinel breaks the loop and line 59
\* closes the connection
DbWriterGet ==
  /\ db_pc = "get"
  /\ db_writer_queue # <<>>
  /\ \E d \in {Dequeue(db_writer_queue)} :
       /\ db_writer_queue' = d.rest
       /\ db_taken' = Record(db_taken, d.item)
       /\ IF IsSentinel(d.item)
          THEN db_pc' = "closed" /\ db_task' = NoTask
          ELSE db_pc' = "apply" /\ db_task' = d.item
  /\ frame' = NoFrame
  /\ UNCHANGED <<detState, vlm_task_queue, pose_call, hist_on, db_input, db_done, vlm_input, w_outcomes,
                 task_queue, store, det_pc, w_pc, w_task, orch_pc, faults>>

\* lines 36-57: the command in hand is routed to its DatabaseManager method
DbWriterApply ==
  /\ db_pc = "apply"
  /\ \E outcome \in Outcomes(store, db_task, MayFail) :
       /\ store' = StoreAfter(store, db_task, outcome)
       /\ faults' = IF outcome = "raised" /\ ~hist_on THEN faults + 1 ELSE faults
       /\ db_pc' = AfterDispatch(outcome)
       /\ db_done' = Record(db_done, [task |-> db_task, outcome |-> outcome])
  /\ db_task' = NoTask
  /\ frame' = NoFrame
  /\ UNCHANGED <<detState, db_writer_queue, vlm_task_queue,
                 pose_call, hist_on, db_input, db_taken, vlm_input, w_outcomes,
                 task_queue, det_pc, w_pc, w_task, orch_pc>>

\* ------------------------------------------------ analysis worker (worker)
\* lines 127-132: OpenAI() returns or raises
WorkerStart ==
  /\ w_pc = "start"
  /\ \E ok \in BOOLEAN : w_pc' = IF ok THEN "poll" ELSE "init_failed"
  /\ frame' = NoFrame
  /\ UNCHANGED <<detState, db_writer_queue, vlm_task_queue, histVars, pose_call,
                 task_queue, store, det_pc, db_pc, db_task, w_task, orch_pc, faults>>

\* lines 134-157: one pass of the loop that finds an item on either queue,
\* up to the call of run_vlm_analysis
WorkerPoll ==
  /\ w_pc = "poll"
  /\ task_queue # <<>> \/ vlm_task_queue # <<>>
  /\ task_queue' = IF task_queue = <<>> THEN task_queue ELSE Tail(task_queue)
  /\ IF task_queue # <<>> /\ Head(task_queue).action = "shutdown"
     THEN /\ w_pc' = "done"
          /\ w_outcomes' = Record(w_outcomes, [task |-> Head(task_queue),
                                               outcome |-> "shutdown"])
          /\ UNCHANGED <<vlm_task_queue, w_task>>
     ELSE IF vlm_task_queue = <<>>
     THEN UNCHANGED <<vlm_task_queue, w_pc, w_task, w_outcomes>>
     ELSE /\ vlm_task_queue' = Tail(vlm_task_queue)
          /\ IF Head(vlm_task_queue) = NoneItem
             THEN /\ w_pc' = "done"
                  /\ w_outcomes' = Record(w_outcomes, [task |-> NoneItem,
                                                       outcome |-> "sentinel"])
                  /\ UNCHANGED w_task
             ELSE IF Head(vlm_task_queue).action = "analyze_threat"
             THEN /\ w_pc' = "analyze"
                  /\ w_task' = Head(vlm_task_queue)
                  /\ UNCHANGED w_outcomes
             ELSE /\ w_outcomes' = Record(w_outcomes, [task |-> Head(vlm_task_queue),
                                                       outcome |-> "ignored"])
                  /\ UNCHANGED <<w_pc, w_task>>
  /\ frame' = NoFrame
  /\ UNCHANGED <<detState, db_writer_queue, pose_call, hist_on, db_input, db_taken, db_done, vlm_input,
                 store, det_pc, db_pc, db_task, orch_pc, faults>>

\* an analysis whose failure rolls the in-memory event back to inactive
WorkerAnalyze_RollsBack ==
  /\ w_pc = "analyze"
  /\ \E ok \in (IF MayFail THEN BOOLEAN ELSE {TRUE}) :
     \E r \in {run_vlm_analysis(store, db_writer_queue, w_task, ok)} :
       /\ store' = r.store
       /\ faults' = IF ok \/ hist_on THEN faults ELSE faults + 1
       /\ db_writer_queue' = r.queue
       /\ db_input' = IF hist_on
                      THEN db_input \o SubSeq(r.queue, Len(db_writer_queue) + 1,
                                              Len(r.queue))
                      ELSE db_input
       /\ w_outcomes' = Record(w_outcomes, [task |-> w_task,
                                            outcome |-> IF ok THEN "ok" ELSE "raised"])
       /\ active_event' = IF ok THEN active_event
                          ELSE [active_event EXCEPT !.status = "inactive", !.id = NoId,
                                                    !.participants = {}]
  /\ w_pc' = "poll"
  /\ w_task' = NoTask
  /\ frame' = NoFrame
  /\ UNCHANGED <<clock, tracked_subjects, uuid_next, oid_next, ev_phase, max_open,
                 last_task, task_gap, held_since, vlm_task_queue, pose_call, hist_on, db_taken,
                 db_done, vlm_input, task_queue, det_pc, db_pc, db_task, orch_pc>>

\* lines 31-96 and 152: run_vlm_analysis on the task in hand
WorkerAnalyze ==
  /\ w_pc = "analyze"
  /\ \E ok \in (IF MayFail THEN BOOLEAN ELSE {TRUE}) :
     \E r \in {run_vlm_analysis(store, db_writer_queue, w_task, ok)} :
       /\ store' = r.store
       /\ faults' = IF ok \/ hist_on THEN faults ELSE faults + 1
       /\ db_writer_queue' = r.queue
       /\ db_input' = IF hist_on
                      THEN db_input \o SubSeq(r.queue, Len(db_writer_queue) + 1,
                                              Len(r.queue))
                      ELSE db_input
       /\ w_outcomes' = Record(w_outcomes, [task |-> w_task,
                                            outcome |-> IF ok THEN "ok" ELSE "raised"])
  /\ w_pc' = "poll"
  /\ w_task' = NoTask
  /\ frame' = NoFrame
  /\ UNCHANGED <<detState, vlm_task_queue, pose_call, hist_on, db_taken, db_done, vlm_input,
                 task_queue, det_pc, db_pc, db_task, orch_pc>>

\* ------------------------------------------------------ orchestrator (orc)
\* lines 87-90: the finally block puts the shutdown task on task_queue,
\* the shutdown command on db_writer_queue and None on vlm_task_queue; it is
\* entered when the sleep of line 80 ends or is interrupted
OrchPutSentinels ==
  /\ orch_pc = "sleep"
  /\ task_queue' = Append(task_queue, ShutdownMsg)
  /\ db_writer_queue' = Append(db_writer_queue, ShutdownMsg)
  /\ db_input' = Record(db_input, ShutdownMsg)
  /\ vlm_task_queue' = Append(vlm_task_queue, NoneItem)
  /\ orch_pc' = "terminate"
  /\ frame' = NoFrame
  /\ vlm_input' = Record(vlm_input, NoneItem)
  /\ UNCHANGED <<detState, pose_call, hist_on, db_taken, db_done, w_outcomes,
                 store, det_pc, db_pc, db_task, w_pc, w_task, faults>>

\* a process that has returned from its target function is not alive
Alive(pc) == pc \notin {"init_failed", "done", "closed", "terminated"}
Terminated(pc) == IF Alive(pc) THEN "terminated" ELSE pc

\* lines 92-99: terminate() on every process that is alive
OrchTerminate ==
  /\ orch_pc = "terminate"
  /\ det_pc' = Terminated(det_pc)
  /\ w_pc' = Terminated(w_pc)
  /\ db_pc' = Terminated(db_pc)
  /\ orch_pc' = "done"
  /\ frame' = NoFrame
  /\ UNCHANGED <<detState, db_writer_queue, vlm_task_queue, histVars, pose_call,
                 task_queue, store, db_task, w_task, faults>>

Next ==
  \/ SysTick \/ FrameSkipped \/ FrameProcessed
  \/ DbWriterStart \/ DbWriterGet \/ DbWriterApply
  \/ WorkerStart \/ WorkerPoll \/ WorkerAnalyze
  \/ OrchPutSentinels \/ OrchTerminate

\* the whole system: detection loop, worker, consumer and orchestrator
Spec == Init /\ [][Next]_vars

NextDetect == Tick \/ FrameSkipped \/ FrameAlone

\* the detection loop alone
SpecDetect == Init /\ [][NextDetect]_vars

\* ------------------- the MediaPipe variant (security_threat_detection1.py)
\* line 49: the mean torso y, normalised to the frame, in hundredths
TorsoGroundPct == 75

\* lines 29-49: is_person_on_ground; landmarks holds the normalised y of the
\* four torso landmarks in hundredths, <<>> is no landmarks
is_person_on_ground(landmarks, frame_height) ==
  IF landmarks = <<>> THEN FALSE
  ELSE landmarks[LEFT_SHOULDER].y + landmarks[RIGHT_SHOULDER].y
         + landmarks[LEFT_HIP].y + landmarks[RIGHT_HIP].y > 4 * TorsoGroundPct

\* lines 103-150: the loop body for one detected person, keyed by its index
\* in the detector's result
ProcessPerson1(st, o, frame_height, now) ==
  LET isNew == IndexOf(st.tracked, o.id) = 0
      ts1 == IF isNew THEN Append(st.tracked, NewSubject(o.id, st.uuid)) ELSE st.tracked
      out1 == IF isNew THEN Append(st.out, Put("db", CreateNewSubjectCmd(st.uuid)))
              ELSE st.out
      i == IndexOf(ts1, o.id)
      r == IF is_person_on_ground(o.keypoints, frame_height)
           THEN PoseTrue(ts1[i], now)
           ELSE PoseFalse(ts1[i])
  IN [tracked |-> [ts1 EXCEPT ![i] = r.subject],
      uuid |-> IF isNew THEN st.uuid + 1 ELSE st.uuid,
      out |-> out1 \o r.out]

RECURSIVE UpdateSubjectStates1(_, _, _, _)
\* lines 103-150: for person_idx in detected_person_indices
UpdateSubjectStates1(st, obs, frame_height, now) ==
  IF obs = <<>> THEN st
  ELSE UpdateSubjectStates1(ProcessPerson1(st, Head(obs), frame_height, now),
                            Tail(obs), frame_height, now)

\* lines 174-181: the end of an event; participants is left as it is
EndEvent1(ev) ==
  [ev |-> [ev EXCEPT !.status = "inactive", !.id = NoId],
   out |-> <<Put("db", EndEventCmd(ev.id))>>]

\* lines 98-100: the detector's result for one frame: the landmarks of zero
\* to MaxSubjects persons, each keyed by its index
Observations1 ==
  UNION {{[i \in 1..n |-> [id |-> i - 1, keypoints |-> lm[i]]] :
            lm \in [1..n -> KeypointSamples]} : n \in 0..MaxSubjects}

\* lines 89-211: one pass of the loop of the MediaPipe variant; there is no
\* skipped frame and no clean-up of subjects that are no longer detected
Frame1Alone ==
  /\ det_pc = "running"
  /\ \E obs \in Observations1 : \E frame_height \in FrameHeights :
    \E st2 \in {UpdateSubjectStates1([tracked |-> tracked_subjects, uuid |-> uuid_next,
                                      out |-> <<>>], obs, frame_height, clock)} :
    \E suspicious_subjects \in {SuspiciousSubjects(st2.tracked)} :
    \E r4 \in {IF StartCond(suspicious_subjects, active_event)
               THEN StartEvent(suspicious_subjects, active_event, oid_next)
               ELSE [ev |-> active_event, out |-> <<>>]} :
    \E r5 \in {IF EndCond(suspicious_subjects, r4.ev) THEN EndEvent1(r4.ev)
               ELSE [ev |-> r4.ev, out |-> <<>>]} :
    \E order \in (IF EscalateCond(r5.ev, clock)
                  THEN SeqsOfSet(NewParticipants(suspicious_subjects, r5.ev))
                  ELSE {<<>>}) :
    \E r6 \in {IF EscalateCond(r5.ev, clock)
               THEN Escalate(suspicious_subjects, r5.ev, clock, order)
               ELSE [ev |-> r5.ev, out |-> <<>>]} :
    \E out \in {st2.out \o r4.out \o r5.out \o r6.out} :
    \E seen \in {ObserveEvents([phase |-> ev_phase, max_open |-> max_open], out)} :
    \E tasks \in {ObserveTasks([last |-> last_task, gap |-> task_gap],
                               PutsOn(out, "vlm"), clock)} :
      /\ r4.ev.id <= MaxEvents
      /\ tracked_subjects' = st2.tracked
      /\ active_event' = r6.ev
      /\ uuid_next' = st2.uuid
      /\ oid_next' = IF StartCond(suspicious_subjects, active_event)
                     THEN oid_next + 1 ELSE oid_next
      /\ frame' = [kind |-> "processed", ids |-> {obs[i].id : i \in DOMAIN obs},
                   out |-> out]
      /\ ev_phase' = seen.phase
      /\ max_open' = seen.max_open
      /\ last_task' = OpenOnly(tasks.last, seen.phase)
      /\ task_gap' = OpenOnly(tasks.gap, seen.phase)
      /\ UNCHANGED <<clock, held_since, db_writer_queue, vlm_task_queue,
                     procVars, histVars, pose_call>>

NextDetect1 == Tick \/ Frame1Alone

\* the detection loop of the MediaPipe variant alone
SpecDetect1 == Init /\ [][NextDetect1]_vars

\* ------------------------------------------- the consumers, each on its own
\* the items the producers of db_writer_queue put: the detection loop's
\* commands, the worker's log command, the orchestrator's sentinel, and
\* malformed items
CommandSamples ==
  {CreateNewSubjectCmd(1), UpdateSubjectStatusCmd(1, "suspicious"),
   CreateEventCmd(1, 1), AddParticipantCmd(1, 2), EndEventCmd(1),
   AddVlmLogCmd(1, <<1>>), UnknownCmd, ShutdownMsg, NoneItem}

\* the items put on vlm_task_queue
TaskSamples ==
  {AnalyzeThreatTask(1, <<[tracking_id |-> 1]>>),
   AnalyzeThreatTask(2, <<[tracking_id |-> 1], [tracking_id |-> 2]>>),
   OtherTask, NoneItem}

InitUnit ==
  /\ clock = StartTime
  /\ tracked_subjects = <<>>
  /\ active_event = [id |-> NoId, status |-> "inactive",
                     last_vlm_trigger_time |-> 0, participants |-> {}]
  /\ uuid_next = 1
  /\ oid_next = 1
  /\ db_writer_queue = <<>>
  /\ vlm_task_queue = <<>>
  /\ frame = NoFrame
  /\ ev_phase = [e \in EventIds |-> "none"]
  /\ max_open = 0
  /\ last_task = [e \in EventIds |-> NoTime]
  /\ task_gap = [e \in EventIds |-> NoTime]
  /\ held_since = [p \in PersonIds |-> NoTime]
  /\ InitProcesses
  /\ hist_on = TRUE
  /\ pose_call = NoCall
  /\ InitHistory

\* a producer puts one command on db_writer_queue
CommandPut ==
  /\ Len(db_input) < MaxPuts
  /\ \E m \in CommandSamples :
       /\ db_writer_queue' = Append(db_writer_queue, m)
       /\ db_input' = Record(db_input, m)
  /\ frame' = NoFrame
  /\ UNCHANGED <<detState, vlm_task_queue, pose_call, hist_on, db_taken, db_done, vlm_input, w_outcomes,
                 procVars>>

\* the detection loop or the orchestrator puts one item on vlm_task_queue
TaskPut ==
  /\ Len(vlm_input) < MaxPuts
  /\ \E t \in TaskSamples :
       /\ vlm_task_queue' = Append(vlm_task_queue, t)
       /\ vlm_input' = Record(vlm_input, t)
  /\ frame' = NoFrame
  /\ UNCHANGED <<detState, db_writer_queue, pose_call, hist_on, db_input, db_taken, db_done,
                 w_outcomes, procVars>>

\* the orchestrator puts the shutdown task on task_queue
ControlPut ==
  /\ w_pc # "done"
  /\ task_queue = <<>>
  /\ task_queue' = <<ShutdownMsg>>
  /\ frame' = NoFrame
  /\ UNCHANGED <<detState, db_writer_queue, vlm_task_queue, histVars, pose_call,
                 store, det_pc, db_pc, db_task, w_pc, w_task, orch_pc, faults>>

NextWriter == CommandPut \/ DbWriterStart \/ DbWriterGet \/ DbWriterApply

\* the persistence consumer fed by its producers
SpecWriter == InitUnit /\ [][NextWriter]_vars

NextWorker == TaskPut \/ ControlPut \/ WorkerStart \/ WorkerPoll \/ WorkerAnalyze

\* the analysis worker fed by its producers; nothing consumes db_writer_queue
SpecWorker == InitUnit /\ [][NextWorker]_vars

\* ----------------------------------- is_person_on_ground_yolo on its own
\* keypoint readings around the two thresholds: confidence in hundredths
\* (0.50 and 0.51), y in pixels around 55% of the frame height
PoseConfs == {50, 51}
PoseYs == {54, 55, 56}
PoseFrameHeights == {100, 101}
PoseKeypoints == [Torso -> [y : PoseYs, conf : PoseConfs]]

InitPose ==
  /\ clock = StartTime
  /\ tracked_subjects = <<>>
  /\ active_event = [id |-> NoId, status |-> "inactive",
                     last_vlm_trigger_time |-> 0, participants |-> {}]
  /\ uuid_next = 1
  /\ oid_next = 1
  /\ db_writer_queue = <<>>
  /\ vlm_task_queue = <<>>
  /\ frame = NoFrame
  /\ ev_phase = [e \in EventIds |-> "none"]
  /\ max_open = 0
  /\ last_task = [e \in EventIds |-> NoTime]
  /\ task_gap = [e \in EventIds |-> NoTime]
  /\ held_since = [p \in PersonIds |-> NoTime]
  /\ InitProcesses
  /\ hist_on = FALSE
  /\ InitHistory
  /\ \E keypoints \in PoseKeypoints : \E frame_height \in PoseFrameHeights :
       pose_call = [evaluated |-> FALSE, keypoints |-> keypoints,
                    frame_height |-> frame_height]

\* lines 24-54: the call returns
PoseReturn ==
  /\ ~pose_call.evaluated
  /\ pose_call' = [evaluated |-> TRUE, keypoints |-> pose_call.keypoints,
                   frame_height |-> pose_call.frame_height,
                   result |-> is_person_on_ground_yolo(pose_call.keypoints,
                                                       pose_call.frame_height)]
  /\ UNCHANGED <<detVars, db_writer_queue, vlm_task_queue, procVars, histVars>>

NextPose == PoseReturn

SpecPose == InitPose /\ [][NextPose]_vars

\* ----------------------------- the detection loop with tracks seen again
\* persistent ids that may be given in all: one more than there are tracks,
\* so that a track can be lost and seen again
MaxIds == MaxSubjects + 1

\* lines 118-247 with MaxIds subjects in all; the frame's outcome is
\* DetectionStep of the loop's state and the frame
FrameSeenAgain ==
  /\ det_pc = "running"
  /\ \E obs \in Observations \ {<<>>} : \E frame_height \in FrameHeights :
    \E r \in DetectionStep(tracked_subjects, active_event, uuid_next, oid_next,
                           clock, obs, frame_height) :
    \E seen \in {ObserveEvents([phase |-> ev_phase, max_open |-> max_open], r.out)} :
    \E tasks \in {ObserveTasks([last |-> last_task, gap |-> task_gap],
                               PutsOn(r.out, "vlm"), clock)} :
      /\ r.uuid <= MaxIds + 1
      /\ r.oid <= MaxEvents + 1
      /\ tracked_subjects' = r.tracked
      /\ active_event' = r.ev
      /\ uuid_next' = r.uuid
      /\ oid_next' = r.oid
      /\ frame' = [kind |-> "processed", ids |-> r.ids, out |-> r.out]
      /\ ev_phase' = seen.phase
      /\ max_open' = seen.max_open
      /\ last_task' = OpenOnly(tasks.last, seen.phase)
      /\ task_gap' = OpenOnly(tasks.gap, seen.phase)
      /\ held_since' = ObserveHeld(held_since, obs, frame_height, r.tracked, clock)
      /\ UNCHANGED <<clock, db_writer_queue, vlm_task_queue, procVars, histVars,
                     pose_call>>

NextSeenAgain == SysTick \/ FrameSkipped \/ FrameSeenAgain

\* the detection loop alone, over SysHorizon seconds, with MaxIds subjects
SpecSeenAgain == Init /\ [][NextSeenAgain]_vars

\* ------------------- the detection loop and the analysis worker, undrained
\* commands followed on db_writer_queue when nothing takes them off
MaxStream == 7

\* lines 118-247 with the puts of the frame left on the two queues
FrameStream ==
  /\ Frame(Observations)
  /\ Len(db_writer_queue) + Len(PutsOn(frame'.out, "db")) <= MaxStream
  /\ Len(vlm_task_queue) + Len(PutsOn(frame'.out, "vlm")) <= MaxTasks
  /\ db_writer_queue' = db_writer_queue \o PutsOn(frame'.out, "db")
  /\ vlm_task_queue' = vlm_task_queue \o PutsOn(frame'.out, "vlm")

NextStream ==
  \/ SysTick \/ FrameSkipped \/ FrameStream
  \/ WorkerStart \/ WorkerPoll \/ WorkerAnalyze

\* the detection loop and the analysis worker side by side, over SysHorizon
\* seconds; the persistence consumer is left out, so db_writer_queue holds
\* every command put, in the order of the puts
SpecStream == Init /\ [][NextStream]_vars

\* ------------------------ the detection loop and the persistence consumer
\* lines 118-247 with every track in view
FrameStore == FrameProcessedOn(Observations)

NextStore ==
  \/ SysTick \/ FrameSkipped \/ FrameStore
  \/ DbWriterStart \/ DbWriterGet \/ DbWriterApply

\* the state after construction when no call of the store is going to raise
InitStore ==
  /\ clock = StartTime
  /\ tracked_subjects = <<>>
  /\ active_event = [id |-> NoId, status |-> "inactive",
                     last_vlm_trigger_time |-> 0, participants |-> {}]
  /\ uuid_next = 1
  /\ oid_next = 1
  /\ db_writer_queue = <<>>
  /\ vlm_task_queue = <<>>
  /\ frame = NoFrame
  /\ ev_phase = [e \in EventIds |-> "none"]
  /\ max_open = 0
  /\ last_task = [e \in EventIds |-> NoTime]
  /\ task_gap = [e \in EventIds |-> NoTime]
  /\ held_since = [p \in PersonIds |-> NoTime]
  /\ task_queue = <<>>
  /\ store = EmptyStore
  /\ det_pc = "running"
  /\ db_pc = "start"
  /\ db_task = NoTask
  /\ w_pc = "start"
  /\ w_task = NoTask
  /\ orch_pc = "sleep"
  /\ faults = MaxFaults
  /\ hist_on = FALSE
  /\ pose_call = NoCall
  /\ InitHistory

\* the detection loop and the persistence consumer side by side, over
\* SysHorizon seconds, when every command application returns
SpecStore == InitStore /\ [][NextStore]_vars

\* ------------------------------------------------------------------ claims
\* the persistence commands of the last frame, and those of one action
DbOut == PutsOn(frame.out, "db")
DbOutOf(out, action) == SelectSeq(PutsOn(out, "db"), LAMBDA m : m.action = action)
VlmOut == PutsOn(frame.out, "vlm")
TrackedSubjectOf(p) == {s \in Range(tracked_subjects) : s.tracking_id = p}
OpenEvents == {e \in EventIds : ev_phase[e] = "open"}

\* C1: in the commands the detection loop emits, no create_event is emitted
\* while an earlier created event has not been ended (at most one event is
\* open at any point of the stream), and the open event of the stream is
\* exactly the in-memory active event.
C1_AtMostOneEventOpen ==
  /\ max_open <= 1
  /\ OpenEvents = IF active_event.status = "active" THEN {active_event.id} ELSE {}
  /\ active_event.status \in {"active", "inactive"}
  /\ active_event.status = "inactive" => active_event.id = NoId

\* a second event is open after the first was ended
C1_Witness ==
  /\ ev_phase[1] = "ended"
  /\ ev_phase[2] = "open"
  /\ active_event.id = 2

\* C2: a subject is Suspicious only after an unbroken run of pose-true
\* observations lasting at least the confirmation window, that began when it
\* entered Pending; a pose-false observation returns it to Normal with
\* pose_start_time cleared.
C2_SuspiciousOnlyAfterWindow ==
  \A i \in DOMAIN tracked_subjects :
    LET s == tracked_subjects[i]
        held == held_since[s.tracking_id]
    IN /\ s.status = "suspicious" =>
            /\ held # NoTime
            /\ s.pose_start_time = held
            /\ clock - held >= POSE_CONFIRMATION_SEC
       /\ s.status = "pending" => held # NoTime /\ s.pose_start_time = held
       /\ held = NoTime => s.status = "normal" /\ s.pose_start_time = NoTime
       /\ s.status \in {"normal", "pending", "suspicious"}

\* a subject confirmed on the last frame, exactly when the window had elapsed
C2_Witness ==
  \E i \in DOMAIN tracked_subjects :
    LET s == tracked_subjects[i]
    IN /\ s.status = "suspicious"
       /\ clock - s.pose_start_time = POSE_CONFIRMATION_SEC
       /\ UpdateSubjectStatusCmd(s.tracking_id, "suspicious") \in Range(DbOut)

\* C3: the commands and tasks that name one event id are, in order, one
\* create_event, then add_participant commands and analysis tasks, then at
\* most one end_event: no second end_event, no end_event before the
\* create_event, no add_participant after the end_event.
C3_EventCommandsWellFormed ==
  \A e \in EventIds : ev_phase[e] \in {"none", "open", "ended"}

\* the first event was ended, and a participant is added to the second
C3_Witness ==
  /\ ev_phase[1] = "ended"
  /\ ev_phase[2] = "open"
  /\ \E p \in PersonIds : AddParticipantCmd(2, p) \in Range(DbOut)

\* the subject that is the only Suspicious one and the only participant
OnlySuspicious(s) ==
  /\ active_event.status = "active"
  /\ SuspiciousSubjects(tracked_subjects) = <<s>>
  /\ active_event.participants = {s.tracking_id}

\* what C4 promises of the frame that loses subject s
LostSubjectEndsEvent(s) ==
  /\ \A i \in DOMAIN tracked_subjects' : tracked_subjects'[i].tracking_id # s.tracking_id
  /\ active_event'.status = "inactive"
  /\ DbOutOf(frame'.out, "end_event") = <<EndEventCmd(active_event.id)>>
  /\ DbOutOf(frame'.out, "add_participant_to_event") = <<>>

\* C4 as stated: on any frame, with or without other tracks, from which the
\* only Suspicious subject is absent, the subject is removed and the event ends.
C4_AsStated ==
  [][\A s \in Range(tracked_subjects) :
       (/\ frame'.kind \in {"skipped", "processed"}
        /\ OnlySuspicious(s)
        /\ s.yolo \notin frame'.ids)
       => LostSubjectEndsEvent(s)]_vars

\* C4 amended: the same, on a frame in which another track is observed and no
\* other subject is confirmed Suspicious; and an add_participant or
\* create_event command only ever names a subject that is tracked and
\* Suspicious, so none names the removed subject afterwards.
C4_LostSubjectEndsEvent ==
  /\ [][\A s \in Range(tracked_subjects) :
          (/\ frame'.kind = "processed"
           /\ OnlySuspicious(s)
           /\ s.yolo \notin frame'.ids
           /\ \A i \in DOMAIN tracked_subjects' :
                tracked_subjects'[i].tracking_id # s.tracking_id
                  => tracked_subjects'[i].status # "suspicious")
          => LostSubjectEndsEvent(s)]_vars
  /\ [](\A i \in DOMAIN DbOut :
          DbOut[i].action \in {"add_participant_to_event", "create_event"} =>
            \E s \in TrackedSubjectOf(DbOut[i].tracking_id) : s.status = "suspicious")

\* a frame that observes only a non-suspicious track and ends the event
\* without any status update: the suspicious subject was lost
C4_Witness ==
  /\ frame.kind = "processed"
  /\ frame.out = <<Put("db", EndEventCmd(1))>>
  /\ Len(tracked_subjects) = 1
  /\ active_event.status = "inactive"

\* C5: a frame that confirms a subject Suspicious while no event is active
\* emits one update_subject_status(suspicious) for it, then one create_event,
\* then one analysis task carrying the new event's id, whatever
\* last_vlm_trigger_time the previous event left behind.
C5_StartEmitsInOrder ==
  [][(/\ frame'.kind = "processed"
      /\ active_event.status = "inactive"
      /\ DbOutOf(frame'.out, "update_subject_status") # <<>>
      /\ \E i \in DOMAIN frame'.out : frame'.out[i].msg.status = "suspicious")
     =>
     LET out == frame'.out
         creates == {i \in DOMAIN out : out[i].msg.action = "create_event"}
         tasks == {i \in DOMAIN out : out[i].msg.action = "analyze_threat"}
         confirms == {i \in DOMAIN out : out[i].msg.status = "suspicious"}
     IN /\ Cardinality(creates) = 1
        /\ Cardinality(tasks) = 1
        /\ \A i \in confirms : \A j \in creates : \A k \in tasks :
             /\ i < j
             /\ j < k
             /\ out[j].queue = "db"
             /\ out[k].queue = "vlm"
             /\ out[j].msg.event_id = oid_next
             /\ out[k].msg.event_id = oid_next
             /\ out[i].msg.action = "update_subject_status"
             /\ Cardinality({c \in confirms : out[c].msg.tracking_id
                                               = out[i].msg.tracking_id}) = 1
        /\ active_event'.status = "active"
        /\ active_event'.id = oid_next
        /\ active_event'.last_vlm_trigger_time = clock']_vars

\* the second event starts less than VLM_INTERVAL_SEC after the first event's
\* last task, and its task is emitted on the starting frame
C5_Witness ==
  /\ frame.kind = "processed"
  /\ \E p \in PersonIds :
       /\ Put("db", UpdateSubjectStatusCmd(p, "suspicious")) \in Range(frame.out)
       /\ Put("db", CreateEventCmd(2, p)) \in Range(frame.out)
       /\ Put("vlm", AnalyzeThreatTask(2, <<[tracking_id |-> p]>>)) \in Range(frame.out)
  /\ clock < StartTime + POSE_CONFIRMATION_SEC + VLM_INTERVAL_SEC

\* C6: two consecutive analysis tasks of one event are emitted on frames at
\* least VLM_INTERVAL_SEC apart, and no frame emits two.
C6_TasksSpaced ==
  /\ \A e \in EventIds :
       /\ task_gap[e] # NoTime => task_gap[e] >= VLM_INTERVAL_SEC
       /\ Len(TasksFor(frame.out, e)) <= 1
  /\ \A i \in DOMAIN VlmOut : VlmOut[i].event_id \in OpenEvents

\* the second task of an event
C6_Witness ==
  /\ \E e \in EventIds : task_gap[e] # NoTime /\ TasksFor(frame.out, e) # <<>>

\* ------------------------------------------------- claims on the consumers
Last(s) == s[Len(s)]
IsPrefix(a, b) == Len(a) <= Len(b) /\ a = SubSeq(b, 1, Len(a))
TasksOf(done) == [i \in DOMAIN done |-> done[i].task]
\* the command or task a consumer has in hand, as a sequence
InHand(task) == IF task = NoTask THEN <<>> ELSE <<task>>

\* the log commands the handled tasks call for: one for each analysis that
\* returned, none for any other task
RECURSIVE LogsOf(_)
LogsOf(outcomes) ==
  IF outcomes = <<>> THEN <<>>
  ELSE (IF Head(outcomes).outcome = "ok"
        THEN <<AddVlmLogCmd(Head(outcomes).task.event_id,
                            SubjectsInLog(Head(outcomes).task.subjects))>>
        ELSE <<>>) \o LogsOf(Tail(outcomes))

\* C7: when the analysis call raises for a task the worker puts no command
\* for that task: the commands it has put are exactly the logs of the tasks
\* whose analysis returned, in order; it leaves its loop only on the None
\* sentinel or the shutdown task, so after a raise it is back at the poll;
\* and the tasks it handles are the items of the channel in FIFO order, so
\* the tasks behind a failed one are handled as any other.
C7_FailedAnalysisPutsNothing ==
  /\ db_writer_queue = LogsOf(w_outcomes)
  /\ w_pc \in {"start", "init_failed", "poll", "analyze", "done"}
  /\ w_pc = "analyze" <=> w_task # NoTask
  /\ w_pc = "done" =>
       w_outcomes # <<>> /\ Last(w_outcomes).outcome \in {"sentinel", "shutdown"}
  /\ \A i \in DOMAIN w_outcomes :
       w_outcomes[i].outcome \in {"sentinel", "shutdown"} => i = Len(w_outcomes)
  /\ SelectSeq(TasksOf(w_outcomes), LAMBDA t : t # ShutdownMsg)
       \o InHand(w_task) \o vlm_task_queue = vlm_input

\* a task whose analysis raised, then a later task analysed and logged
C7_Witness ==
  /\ Len(w_outcomes) = 2
  /\ w_outcomes[1].outcome = "raised"
  /\ w_outcomes[2].outcome = "ok"
  /\ w_outcomes[2].task.event_id = 2
  /\ db_writer_queue = <<AddVlmLogCmd(2, <<1, 2>>)>>
  /\ w_pc = "poll"

\* who puts an item on db_writer_queue
Producers == {"detection", "worker", "orchestrator"}
ProducerOf(m) ==
  IF m.action = "add_vlm_log" THEN "worker"
  ELSE IF IsSentinel(m) THEN "orchestrator" ELSE "detection"
PutBy(producer, s) == SelectSeq(s, LAMBDA m : ProducerOf(m) = producer)

\* C8: commands are applied one at a time and in FIFO order: what has been
\* taken from the channel followed by what is still in it is what was put, in
\* put order; the consumer has at most one command in hand, and every command
\* taken before it has finished (returned, raised or been dropped); and for
\* each producer the commands dispatched so far are a prefix of the commands
\* it put, in its order.
C8_OneAtATimeInFifoOrder ==
  /\ db_taken \o db_writer_queue = db_input
  /\ db_pc = "apply" <=> db_task # NoTask
  /\ TasksOf(db_done) \o InHand(db_task)
       = SelectSeq(db_taken, LAMBDA m : ~IsSentinel(m))
  /\ \A producer \in Producers :
       IsPrefix(PutBy(producer, TasksOf(db_done)), PutBy(producer, db_input))

\* two commands of different producers dispatched, a third in hand
C8_Witness ==
  /\ Len(db_done) = 2
  /\ ProducerOf(db_done[1].task) = "worker"
  /\ ProducerOf(db_done[2].task) = "detection"
  /\ db_pc = "apply"
  /\ db_task = EndEventCmd(1)

\* C9: the consumer leaves its loop only on a sentinel: it is closed only
\* after taking a None item or a shutdown command, and the step that closes
\* it takes one. A command whose call raises and a command whose action is
\* not routed are dropped: that step leaves the store and the channel as
\* they were, empties the consumer's hand and returns it to the get, and the
\* command is never dispatched again.
C9_OnlySentinelStopsConsumer ==
  /\ [](/\ db_pc \in {"start", "init_failed", "get", "apply", "closed"}
        /\ db_pc = "closed" => db_taken # <<>> /\ IsSentinel(Last(db_taken))
        /\ Len(db_done) + Len(InHand(db_task)) <= Len(db_taken)
        /\ \A i \in DOMAIN db_done :
             db_done[i].outcome = "unknown"
               <=> db_done[i].task.action \notin RoutedActions)
  /\ [][db_pc # "closed" /\ db_pc' = "closed" =>
          /\ db_pc = "get"
          /\ db_writer_queue # <<>>
          /\ IsSentinel(Head(db_writer_queue))]_vars
  /\ [][db_done' # db_done /\ Last(db_done').outcome # "applied" =>
          /\ store' = store
          /\ db_writer_queue' = db_writer_queue
          /\ db_task' = NoTask
          /\ db_pc' = "get"]_vars

\* a raising command and an unrouted command dropped, then a command applied
C9_Witness ==
  /\ Len(db_done) = 3
  /\ db_done[1].outcome = "raised"
  /\ db_done[2].outcome = "unknown"
  /\ db_done[3].outcome = "applied"
  /\ db_done[3].task = CreateNewSubjectCmd(1)
  /\ store.subjects # <<>>
  /\ db_pc = "get"

\* C10: single writer: every step that changes the store is the persistence
\* consumer dispatching the routed command it took from the channel, and the
\* store becomes what that command's DatabaseManager call makes of it; the
\* step changes nothing of the detection loop, the worker or the channels.
\* So no step of the detection loop, the worker or the orchestrator changes
\* the store.
C10_SingleWriter ==
  [][store' # store =>
       /\ db_pc = "apply"
       /\ db_task.action \in RoutedActions
       /\ store' = Dispatch(store, db_task)
       /\ db_pc' = "get"
       /\ UNCHANGED <<detState, db_writer_queue, vlm_task_queue, task_queue,
                      det_pc, w_pc, w_task, orch_pc>>]_vars

\* the consumer has written a subject, an event and the worker's log while
\* the detection loop and the worker run
C10_Witness ==
  /\ store.subjects # <<>>
  /\ store.events # <<>>
  /\ store.vlm_logs # <<>>
  /\ det_pc = "running"
  /\ w_pc = "poll"
  /\ db_pc = "get"

\* ------------------------------------------------ claims on the whole system
\* the most commands one frame puts: for each track a create_new_subject or a
\* status update, then a create_event or an end_event, then an
\* add_participant for each further subject
FramePuts == 2 * Cardinality(SysTrackIds)

\* the state is inside the model's bounds on queue lengths and fresh ids
FrameRoom ==
  /\ Len(db_writer_queue) + FramePuts <= MaxQueue
  /\ Len(vlm_task_queue) < MaxTasks
  /\ uuid_next <= MaxSubjects
  /\ oid_next <= MaxEvents

\* C11: the detection loop never waits for a consumer: while its process
\* runs, a frame without tracks can be taken, and (inside the model's bounds
\* on queue lengths) a frame with any observations can be taken, whatever
\* the queues hold and whether the consumers are starting, running, failed
\* at start-up or gone.
C11_DetectionNeverBlocks ==
  det_pc = "running" =>
    /\ ENABLED FrameSkipped
    /\ FrameRoom =>
         \A obs \in SysObservations \ {<<>>} : ENABLED FrameProcessedOn({obs})

\* a frame has just put messages on both queues while neither consumer
\* came up, behind messages nobody has taken
C11_Witness ==
  /\ db_pc = "init_failed"
  /\ w_pc = "init_failed"
  /\ frame.kind = "processed"
  /\ PutsOn(frame.out, "db") # <<>>
  /\ PutsOn(frame.out, "vlm") # <<>>
  /\ Len(db_writer_queue) > Len(PutsOn(frame.out, "db"))

\* C12: what the consumers do never reaches the detection loop. A step of a
\* consumer or of the orchestrator (start, failure at start-up, get, apply,
\* failed analysis, termination) leaves the subjects, the event and the id
\* counters as they are; a processed frame takes them to an outcome that
\* is a function of the loop's own state, the time and the frame alone, and
\* appends exactly that outcome's messages to the two channels.
C12_ConsumersDoNotInterfere ==
  [][/\ frame'.kind # "processed" =>
          UNCHANGED <<tracked_subjects, active_event, uuid_next, oid_next>>
     /\ frame'.kind = "processed" =>
          /\ \E obs \in SysObservations \ {<<>>} : \E frame_height \in FrameHeights :
               [tracked |-> tracked_subjects', ev |-> active_event',
                uuid |-> uuid_next', oid |-> oid_next', ids |-> frame'.ids,
                out |-> frame'.out]
                 \in DetectionStep(tracked_subjects, active_event, uuid_next,
                                   oid_next, clock, obs, frame_height)
          /\ db_writer_queue' = db_writer_queue \o PutsOn(frame'.out, "db")
          /\ vlm_task_queue' = vlm_task_queue \o PutsOn(frame'.out, "vlm")]_vars

\* the event's task was taken by the worker and its analysis raised (the
\* writer has not yet taken create_event, and no log is behind it); the next
\* frame finds the event active and the subject tracked as before
C12_Witness ==
  /\ frame.kind = "processed"
  /\ frame.out = <<>>
  /\ active_event.status = "active"
  /\ faults > 0
  /\ w_pc = "poll"
  /\ vlm_task_queue = <<>>
  /\ \E i \in DOMAIN db_writer_queue : db_writer_queue[i].action = "create_event"
  /\ \A i \in DOMAIN db_writer_queue : db_writer_queue[i].action # "add_vlm_log"

\* the positions of db_writer_queue that hold create_event for event e
CreateEventAt(e) ==
  {i \in DOMAIN db_writer_queue :
     db_writer_queue[i].action = "create_event" /\ db_writer_queue[i].event_id = e}

\* create_event for event e has been put and the writer has taken it
CreateEventTaken(e) ==
  /\ ev_phase[e] # "none"
  /\ CreateEventAt(e) = {}
  /\ ~(db_task.action = "create_event" /\ db_task.event_id = e)

\* C13: the task of an event follows its create_event, and so does the log.
\* In a frame's puts no create_event for X comes at or after a task for X;
\* a task for X waiting or in the worker's hand has create_event X put before
\* it; an add_vlm_log for X waiting in the persistence channel has no
\* create_event X at or behind its position; an add_vlm_log for X in the
\* writer's hand or applied to the store has create_event X taken before it,
\* and applied when no call raised.
C13_LogFollowsCreateEvent ==
  /\ \A i \in DOMAIN frame.out :
       frame.out[i].queue = "vlm" =>
         /\ ev_phase[frame.out[i].msg.event_id] # "none"
         /\ \A j \in DOMAIN frame.out :
              (/\ frame.out[j].msg.action = "create_event"
               /\ frame.out[j].msg.event_id = frame.out[i].msg.event_id) => j < i
  /\ \A t \in Range(vlm_task_queue) \cup {w_task} :
       t.action = "analyze_threat" => ev_phase[t.event_id] # "none"
  /\ \A i \in DOMAIN db_writer_queue :
       db_writer_queue[i].action = "add_vlm_log" =>
         /\ ev_phase[db_writer_queue[i].event_id] # "none"
         /\ \A j \in CreateEventAt(db_writer_queue[i].event_id) : j < i
  /\ db_task.action = "add_vlm_log" => CreateEventTaken(db_task.event_id)
  /\ \A i \in DOMAIN store.vlm_logs :
       /\ CreateEventTaken(store.vlm_logs[i].event_id)
       /\ faults = 0 => EventIndex(store, store.vlm_logs[i].event_id) # 0

\* the worker has put the log of event 1 while create_event 1 still waits
\* in the persistence channel, ahead of it
C13_Witness ==
  \E i, j \in DOMAIN db_writer_queue :
    /\ i < j
    /\ db_writer_queue[i].action = "create_event"
    /\ db_writer_queue[j].action = "add_vlm_log"
    /\ db_writer_queue[i].event_id = db_writer_queue[j].event_id

\* ------------------------------------------------------- claims on shutdown
\* the two items that end the persistence consumer
SentinelItems == {NoneItem, ShutdownMsg}

\* C14: the sentinel is the last thing the writer takes. Once it has taken
\* None or the shutdown command it is closed with nothing in hand; the step
\* that takes the sentinel applies nothing; and from then on it takes
\* nothing, applies nothing and the store stays as it is, so the commands
\* behind the sentinel stay in the channel for ever.
C14_SentinelEndsWriter ==
  /\ [](/\ \A i \in DOMAIN db_taken :
             db_taken[i] \in SentinelItems =>
               i = Len(db_taken) /\ db_pc = "closed" /\ db_task = NoTask
        /\ \A i \in DOMAIN db_done : db_done[i].task \notin SentinelItems)
  /\ [][db_taken' # db_taken /\ Last(db_taken') \in SentinelItems =>
          /\ db_pc' = "closed"
          /\ store' = store
          /\ db_done' = db_done]_vars
  /\ [][db_pc = "closed" =>
          /\ db_pc' = "closed"
          /\ store' = store
          /\ db_taken' = db_taken
          /\ db_done' = db_done
          /\ IsPrefix(db_writer_queue, db_writer_queue')]_vars

\* a command was applied, then the shutdown command was taken, and a command
\* put behind it waits in the channel of the closed writer
C14_Witness ==
  /\ db_pc = "closed"
  /\ Len(db_taken) = 2
  /\ db_taken[2] = ShutdownMsg
  /\ Len(db_done) = 1
  /\ db_done[1].outcome = "applied"
  /\ db_writer_queue = <<CreateEventCmd(1, 1)>>
  /\ store.events = <<>>

\* C15: once the orchestrator has put the sentinels, no step puts a message
\* on the persistence channel or on the analysis-task channel.
C15_AsStated ==
  [][orch_pc # "sleep" =>
       /\ Len(db_writer_queue') <= Len(db_writer_queue)
       /\ Len(vlm_task_queue') <= Len(vlm_task_queue)]_vars

\* the detection loop, not yet terminated, has put the commands of a frame
\* behind the shutdown command and its task behind None
C15_ProducedBehindSentinel ==
  /\ orch_pc = "terminate"
  /\ det_pc = "running"
  /\ frame.kind = "processed"
  /\ \E i, j \in DOMAIN db_writer_queue :
       i < j /\ db_writer_queue[i] = ShutdownMsg /\ db_writer_queue[j] # ShutdownMsg
  /\ \E i, j \in DOMAIN vlm_task_queue :
       i < j /\ vlm_task_queue[i] = NoneItem /\ vlm_task_queue[j] # NoneItem

\* -------------------------------------------------------- claims on the store
\* the participants the store holds for event e, as a sequence
ParticipantsOf(st, e) ==
  IF EventIndex(st, e) = 0 THEN <<>>
  ELSE st.events[EventIndex(st, e)].participant_tracking_ids

\* C16: add_participant_to_event is idempotent. On every store the writer
\* can build, for every event id and tracking id, adding an id that is
\* already among the event's participants leaves the store as it is, and
\* adding twice gives the store that adding once gives; and every
\* add_participant command the writer applies for an id already present
\* leaves the store unchanged, with no id held twice.
C16_AddParticipantIdempotent ==
  /\ [](\A e \in EventIds : \A p \in PersonIds :
          /\ p \in Range(ParticipantsOf(store, e)) =>
               add_participant_to_event(store, e, p) = store
          /\ add_participant_to_event(add_participant_to_event(store, e, p), e, p)
               = add_participant_to_event(store, e, p)
          /\ Cardinality(Range(ParticipantsOf(store, e))) = Len(ParticipantsOf(store, e)))
  /\ [][(/\ db_done' # db_done
         /\ Last(db_done').outcome = "applied"
         /\ db_task.action = "add_participant_to_event"
         /\ db_task.tracking_id \in Range(ParticipantsOf(store, db_task.event_id)))
        => store' = store]_vars

\* event 1 was created with participant 1, then add_participant for 2 was
\* applied twice: the second application found 2 present
C16_Witness ==
  /\ Len(db_done) = 3
  /\ db_done[1] = [task |-> CreateEventCmd(1, 1), outcome |-> "applied"]
  /\ db_done[2] = [task |-> AddParticipantCmd(1, 2), outcome |-> "applied"]
  /\ db_done[3] = [task |-> AddParticipantCmd(1, 2), outcome |-> "applied"]
  /\ ParticipantsOf(store, 1) = <<1, 2>>

\* ------------------------------------------------ claims on the pose heuristic
\* the torso keypoints whose confidence is strictly above 0.5
Confident(keypoints) == {k \in Torso : keypoints[k].conf > 50}

RECURSIVE SumY(_, _)
\* the sum of the y coordinates of the keypoints in ks
SumY(keypoints, ks) ==
  IF ks = {} THEN 0
  ELSE LET k == CHOOSE x \in ks : TRUE
       IN keypoints[k].y + SumY(keypoints, ks \ {k})

\* C17: with fewer than two confident torso keypoints the heuristic returns
\* false whatever the positions; with two or more it returns true exactly
\* when the mean y of the confident keypoints is strictly greater than 0.55
\* times the frame height (mean > 0.55 h, cleared of the division and of the
\* hundredths: 100 * sum > 55 * h * count).
C17_GroundPoseHeuristic ==
  pose_call.evaluated =>
    LET ks == Confident(pose_call.keypoints)
    IN /\ Cardinality(ks) < 2 => pose_call.result = FALSE
       /\ Cardinality(ks) >= 2 =>
            (pose_call.result = TRUE
               <=> 100 * SumY(pose_call.keypoints, ks)
                     > 55 * pose_call.frame_height * Cardinality(ks))

\* exactly two confident keypoints, their mean y exactly on 55% of the frame
\* height: the call returned false
C17_Witness ==
  /\ pose_call.evaluated
  /\ Confident(pose_call.keypoints) = {LEFT_SHOULDER, RIGHT_HIP}
  /\ pose_call.keypoints[LEFT_SHOULDER].y = 54
  /\ pose_call.keypoints[RIGHT_HIP].y = 56
  /\ pose_call.keypoints[RIGHT_SHOULDER].y = 56
  /\ pose_call.keypoints[LEFT_HIP].y = 56
  /\ pose_call.frame_height = 100
  /\ pose_call.result = FALSE

\* ------------------------------------------- claims on frames and escalation
\* the event was active before the step and its escalation interval has passed
EscalationDue ==
  /\ active_event.status = "active"
  /\ clock - active_event.last_vlm_trigger_time >= VLM_INTERVAL_SEC

\* C18 as stated: on every frame, with or without tracks, taken while an
\* event is active and due for escalation, exactly one analysis task is
\* emitted.
C18_AsStated ==
  [][(frame'.kind \in {"skipped", "processed"} /\ EscalationDue)
       => Len(PutsOn(frame'.out, "vlm")) = 1]_vars

\* C18 amended: a frame in which the tracker reports at least one track
\* emits exactly one analysis task when, after that frame's start and end
\* decisions, the event is active and either has just started or was due for
\* escalation, and emits none otherwise; the task carries the event's id
\* and the escalation time becomes the frame's time. A frame with no track
\* emits no task and leaves the escalation time as it was, even when the
\* escalation is due.
C18_EscalationOnProcessedFrames ==
  /\ [][frame'.kind = "processed" =>
          /\ Len(PutsOn(frame'.out, "vlm")) <= 1
          /\ Len(PutsOn(frame'.out, "vlm")) = 1
               <=> (/\ active_event'.status = "active"
                    /\ active_event.status = "active" => EscalationDue)
          /\ \A i \in DOMAIN PutsOn(frame'.out, "vlm") :
               /\ PutsOn(frame'.out, "vlm")[i].action = "analyze_threat"
               /\ PutsOn(frame'.out, "vlm")[i].event_id = active_event'.id
               /\ active_event'.last_vlm_trigger_time = clock]_vars
  /\ [][frame'.kind = "skipped" =>
          /\ frame'.out = <<>>
          /\ active_event' = active_event]_vars

\* an event that was active and due is escalated again by a frame with a
\* track: the second task of the event
C18_Witness ==
  /\ frame.kind = "processed"
  /\ active_event.status = "active"
  /\ active_event.last_vlm_trigger_time = clock
  /\ Len(VlmOut) = 1
  /\ task_gap[active_event.id] >= VLM_INTERVAL_SEC
  /\ DbOutOf(frame.out, "create_event") = <<>>

\* subject s is tracked no more after the step, and no persistence command
\* of the frame names it
RemovedSilently(s) ==
  /\ \A i \in DOMAIN tracked_subjects' :
       /\ tracked_subjects'[i].yolo # s.yolo
       /\ tracked_subjects'[i].tracking_id # s.tracking_id
  /\ \A i \in DOMAIN PutsOn(frame'.out, "db") :
       PutsOn(frame'.out, "db")[i].tracking_id # s.tracking_id

\* C19 as stated: on every frame, with or without tracks, each subject whose
\* track id is absent from the frame is removed, with no command naming it.
C19_AsStated ==
  [][\A s \in Range(tracked_subjects) :
       (frame'.kind \in {"skipped", "processed"} /\ s.yolo \notin frame'.ids)
         => RemovedSilently(s)]_vars

\* C19 amended: on a frame in which the tracker reports at least one track,
\* each subject whose track id is absent is removed with no command naming
\* it, and the subjects tracked afterwards are exactly the tracks of the
\* frame; a frame with no track at all removes nobody.
C19_LostSubjectRemoved ==
  /\ [][frame'.kind = "processed" =>
          /\ \A s \in Range(tracked_subjects) :
               s.yolo \notin frame'.ids => RemovedSilently(s)
          /\ {tracked_subjects'[i].yolo : i \in DOMAIN tracked_subjects'} = frame'.ids
          /\ \A s \in Range(tracked_subjects) :
               s.yolo \in frame'.ids =>
                 \E i \in DOMAIN tracked_subjects' :
                   /\ tracked_subjects'[i].yolo = s.yolo
                   /\ tracked_subjects'[i].tracking_id = s.tracking_id]_vars
  /\ [][frame'.kind = "skipped" => tracked_subjects' = tracked_subjects]_vars

\* the frame observed track 2 alone and lost the suspicious subject of
\* track 1: the event ended, and end_event is the frame's only command
C19_Witness ==
  /\ frame.kind = "processed"
  /\ frame.ids = {2}
  /\ frame.out = <<Put("db", EndEventCmd(1))>>
  /\ Len(tracked_subjects) = 1
  /\ tracked_subjects[1].yolo = 2
  /\ tracked_subjects[1].status = "normal"
  /\ uuid_next = 3

\* C20: a frame in which the tracker reports no tracked person is a no-op
\* for the detection loop: the tracked subjects with their statuses and
\* timers, the event with its id, status, participants and escalation time,
\* and the id counters are unchanged, and nothing is put on either channel.
C20_EmptyFrameIsNoOp ==
  [][frame'.kind = "skipped" =>
       /\ tracked_subjects' = tracked_subjects
       /\ active_event' = active_event
       /\ uuid_next' = uuid_next
       /\ oid_next' = oid_next
       /\ frame'.out = <<>>
       /\ db_writer_queue' = db_writer_queue
       /\ vlm_task_queue' = vlm_task_queue]_vars

\* a frame with no track taken while a suspicious subject is tracked, its
\* event is active and the escalation interval has passed: the subject is
\* still tracked and the escalation is still due
C20_Witness ==
  /\ frame.kind = "skipped"
  /\ EscalationDue
  /\ \E s \in Range(tracked_subjects) :
       s.status = "suspicious" /\ s.tracking_id \in active_event.participants

\* ------------------------------------------------- claims on participation
\* the ids of the subjects that are Suspicious among ts
SuspiciousIds(ts) == {s.tracking_id : s \in Range(SuspiciousSubjects(ts))}

\* the ids that the create_event and add_participant commands among out
\* record for event e
RecordedFor(out, e) ==
  {m.tracking_id : m \in {x \in Range(PutsOn(out, "db")) :
                            /\ x.action \in {"create_event", "add_participant_to_event"}
                            /\ x.event_id = e}}

\* the step is a frame on which the event that was active ends
EndsEvent ==
  /\ frame'.kind = "processed"
  /\ active_event.status = "active"
  /\ active_event'.status = "inactive"

\* the step is a frame on which an escalation pass runs
EscalationPass ==
  /\ frame'.kind = "processed"
  /\ PutsOn(frame'.out, "vlm") # <<>>

\* the participants the event that is active after the step had before it
ParticipantsBefore ==
  IF active_event.status = "active" THEN active_event.participants ELSE {}

\* C21 as stated, for the subjects that are Suspicious when the frame that
\* ends the event begins: each of them is a participant of the event, its
\* id recorded by create_event or add_participant before end_event.
C21_AsStated ==
  [][EndsEvent => SuspiciousIds(tracked_subjects) \subseteq active_event.participants]_vars

\* C21 amended: participants are recorded by escalation passes only. After
\* a frame on which an escalation pass runs, every Suspicious subject is a
\* participant of the active event; the ids that join the participants on
\* a frame are exactly those its create_event and add_participant commands
\* for the event record; and the frame that emits end_event records nobody.
C21_RecordedAtEscalation ==
  /\ [][EscalationPass =>
          SuspiciousIds(tracked_subjects') \subseteq active_event'.participants]_vars
  /\ [][(frame'.kind = "processed" /\ active_event'.status = "active") =>
          /\ ParticipantsBefore \subseteq active_event'.participants
          /\ active_event'.participants \ ParticipantsBefore
               = RecordedFor(frame'.out, active_event'.id)]_vars
  /\ [][EndsEvent =>
          /\ DbOutOf(frame'.out, "add_participant_to_event") = <<>>
          /\ DbOutOf(frame'.out, "create_event") = <<>>]_vars

\* an escalation pass has recorded a second Suspicious subject by
\* add_participant, ahead of the task that lists both
C21_Witness ==
  /\ frame.kind = "processed"
  /\ active_event.status = "active"
  /\ Cardinality(active_event.participants) = 2
  /\ Len(DbOutOf(frame.out, "add_participant_to_event")) = 1
  /\ Len(VlmOut) = 1
  /\ Len(VlmOut[1].subjects) = 2

\* C22 as stated: while an event is active, every id in participants belongs
\* to a subject that is tracked and Suspicious.
C22_AsStated ==
  active_event.status = "active" =>
    active_event.participants \subseteq SuspiciousIds(tracked_subjects)

\* C22 amended: participants holds the ids recorded for the event so far.
\* While the event stays active no step takes an id out of it, whether the
\* subject returns to Normal or its track is lost; it is emptied only by the
\* step that ends the event. It is never empty while the event is active,
\* always empty while none is, and holds only ids given to subjects.
C22_ParticipantsOnlyGrow ==
  /\ [](/\ active_event.status = "active" =>
             /\ active_event.participants # {}
             /\ \A p \in active_event.participants : p \in PersonIds /\ p < uuid_next
        /\ active_event.status = "inactive" => active_event.participants = {})
  /\ [][(active_event.status = "active" /\ active_event'.status = "active") =>
          /\ active_event'.id = active_event.id
          /\ active_event.participants \subseteq active_event'.participants]_vars
  /\ [][(active_event.participants # {} /\ active_event'.participants = {}) =>
          EndsEvent]_vars

\* the event is active with two participants; one of them has just returned
\* to Normal and is still counted
C22_Witness ==
  /\ frame.kind = "processed"
  /\ active_event.status = "active"
  /\ Cardinality(active_event.participants) = 2
  /\ \E p \in active_event.participants :
       /\ Put("db", UpdateSubjectStatusCmd(p, "normal")) \in Range(frame.out)
       /\ \E s \in TrackedSubjectOf(p) : s.status = "normal"

\* the step is a frame on which an event starts
StartsEvent ==
  /\ frame'.kind = "processed"
  /\ active_event.status = "inactive"
  /\ active_event'.status = "active"

\* C23: the frame that ends an event leaves the in-memory event with no id,
\* inactive and with no participant; and the frame that starts the next
\* event leaves it with the Suspicious subjects as its only participants,
\* each of them named by its create_event or by an add_participant command
\* of that frame.
C23_AsStated ==
  /\ [][EndsEvent =>
          /\ active_event'.id = NoId
          /\ active_event'.status = "inactive"
          /\ active_event'.participants = {}]_vars
  /\ [][StartsEvent =>
          /\ active_event'.participants = SuspiciousIds(tracked_subjects')
          /\ RecordedFor(frame'.out, active_event'.id) = SuspiciousIds(tracked_subjects')]_vars

\* in the MediaPipe variant a second event has started with two Suspicious
\* subjects; its participants were carried over from the first event and
\* the frame recorded the seed only
C23_CarriedOver ==
  /\ frame.kind = "processed"
  /\ active_event.status = "active"
  /\ active_event.id = 2
  /\ Cardinality(SuspiciousIds(tracked_subjects)) = 2
  /\ active_event.participants = SuspiciousIds(tracked_subjects)
  /\ Len(DbOutOf(frame.out, "create_event")) = 1
  /\ DbOutOf(frame.out, "add_participant_to_event") = <<>>

\* the persistent id of the first Suspicious subject after the step
FirstSuspicious == SuspiciousSubjects(tracked_subjects')[1].tracking_id

\* C24: start seeds the event with one subject. On the frame that starts an
\* event the start block leaves participants = {first Suspicious subject};
\* the frame emits one create_event, carrying the id allocated for the event
\* and that one participant, and the stored event lists that participant
\* only; every other Suspicious subject is named by exactly one
\* add_participant command of the escalation pass that follows on the same
\* frame, between create_event and the task.
C24_StartSeedsFirstOnly ==
  [][StartsEvent =>
       /\ StartEvent(SuspiciousSubjects(tracked_subjects'), active_event, oid_next)
            .ev.participants = {FirstSuspicious}
       /\ active_event'.id = oid_next
       /\ DbOutOf(frame'.out, "create_event")
            = <<CreateEventCmd(oid_next, FirstSuspicious)>>
       /\ ParticipantsOf(create_event(store, oid_next, FirstSuspicious), oid_next)
            = <<FirstSuspicious>>
       /\ \A p \in SuspiciousIds(tracked_subjects') \ {FirstSuspicious} :
            Len(SelectSeq(frame'.out,
                          LAMBDA x : x = Put("db", AddParticipantCmd(oid_next, p)))) = 1
       /\ Len(DbOutOf(frame'.out, "add_participant_to_event"))
            = Cardinality(SuspiciousIds(tracked_subjects')) - 1
       /\ \E i, k \in DOMAIN frame'.out :
            /\ frame'.out[i].msg.action = "create_event"
            /\ frame'.out[k].msg.action = "analyze_threat"
            /\ \A j \in DOMAIN frame'.out :
                 frame'.out[j].msg.action = "add_participant_to_event" => i < j /\ j < k]_vars

\* an event has started on a frame that confirmed two subjects: create_event
\* names the first, add_participant the other
C24_Witness ==
  /\ frame.kind = "processed"
  /\ active_event.status = "active"
  /\ DbOutOf(frame.out, "create_event") = <<CreateEventCmd(1, 1)>>
  /\ DbOutOf(frame.out, "add_participant_to_event") = <<AddParticipantCmd(1, 2)>>
  /\ active_event.participants = {1, 2}

\* the participants the event has when the escalation block of the step is
\* reached: those it had, or the seed of the start on this frame
ParticipantsAtPass ==
  ParticipantsBefore
    \cup {m.tracking_id : m \in Range(DbOutOf(frame'.out, "create_event"))}

\* C25: an escalation pass emits one add_participant command, with the
\* event's id, for each Suspicious id not yet in participants, then as the
\* last message of the frame exactly one analysis task with the event's id
\* and the list of all Suspicious subjects; after it participants is what it
\* was plus those ids, so a superset of the Suspicious ids, and the
\* escalation time is the frame's time, also when nobody new was found.
C25_EscalationPass ==
  [][EscalationPass =>
       /\ PutsOn(frame'.out, "vlm")
            = <<AnalyzeThreatTask(active_event'.id,
                  [i \in DOMAIN SuspiciousSubjects(tracked_subjects') |->
                     [tracking_id |-> SuspiciousSubjects(tracked_subjects')[i].tracking_id]])>>
       /\ Last(frame'.out).queue = "vlm"
       /\ {m.tracking_id : m \in Range(DbOutOf(frame'.out, "add_participant_to_event"))}
            = SuspiciousIds(tracked_subjects') \ ParticipantsAtPass
       /\ Len(DbOutOf(frame'.out, "add_participant_to_event"))
            = Cardinality(SuspiciousIds(tracked_subjects') \ ParticipantsAtPass)
       /\ \A m \in Range(DbOutOf(frame'.out, "add_participant_to_event")) :
            m.event_id = active_event'.id
       /\ active_event'.participants
            = ParticipantsAtPass \cup SuspiciousIds(tracked_subjects')
       /\ active_event'.last_vlm_trigger_time = clock]_vars

\* a pass of a running event that found nobody new: the frame's only
\* message is the task, listing the one subject still Suspicious of the two
\* participants, and the escalation time is the frame's time
C25_Witness ==
  /\ frame.kind = "processed"
  /\ active_event.status = "active"
  /\ active_event.participants = {1, 2}
  /\ active_event.last_vlm_trigger_time = clock
  /\ Len(frame.out) = 1
  /\ Len(VlmOut) = 1
  /\ Len(VlmOut[1].subjects) = 1

\* ------------------------------------------- claims on the order in a frame
\* the positions of the frame's messages that carry the given action
PositionsOf(out, action) == {i \in DOMAIN out : out[i].msg.action = action}

\* C26: within one frame start and end never both occur; a frame on which
\* the event ends runs no escalation pass (no add_participant, no task, the
\* escalation time untouched); a frame on which an event starts does run
\* one, after the start: its task follows its create_event.
C26_StartEndExclusive ==
  /\ [](/\ PositionsOf(frame.out, "create_event") = {}
           \/ PositionsOf(frame.out, "end_event") = {}
        /\ Cardinality(PositionsOf(frame.out, "create_event")) <= 1
        /\ Cardinality(PositionsOf(frame.out, "end_event")) <= 1
        /\ PositionsOf(frame.out, "end_event") # {} =>
             /\ PositionsOf(frame.out, "analyze_threat") = {}
             /\ PositionsOf(frame.out, "add_participant_to_event") = {}
        /\ \A i \in PositionsOf(frame.out, "create_event") :
             \E k \in PositionsOf(frame.out, "analyze_threat") : i < k)
  /\ [][frame'.kind = "processed" =>
          /\ ~(StartsEvent /\ PositionsOf(frame'.out, "end_event") # {})
          /\ StartsEvent <=> PositionsOf(frame'.out, "create_event") # {}
          /\ EndsEvent <=> PositionsOf(frame'.out, "end_event") # {}
          /\ EndsEvent =>
               active_event'.last_vlm_trigger_time = active_event.last_vlm_trigger_time]_vars

\* an event whose escalation was due ends on the frame: end_event is the
\* frame's last message and no task follows it
C26_Witness ==
  /\ frame.kind = "processed"
  /\ active_event.status = "inactive"
  /\ clock - active_event.last_vlm_trigger_time >= VLM_INTERVAL_SEC
  /\ ev_phase[1] = "ended"
  /\ frame.out # <<>>
  /\ Last(frame.out) = Put("db", EndEventCmd(1))
  /\ Len(frame.out) >= 2

\* ------------------------------------------ claims on the subject's statuses
\* the status updates for subject p among the frame's commands
StatusUpdatesOf(out, p) ==
  SelectSeq(DbOutOf(out, "update_subject_status"), LAMBDA m : m.tracking_id = p)

\* C27: one update_subject_status(suspicious) per Pending episode. A frame
\* emits the command for a subject only on the step that takes it from
\* Pending to Suspicious, once, and the subject leaves Suspicious only for
\* Normal or by removal; confirmed is set exactly while the subject is
\* Suspicious; and the pose-true branch applied to a Suspicious subject, at
\* any time, returns it as it is with no command.
C27_OneSuspiciousUpdatePerEpisode ==
  /\ [](\A s \in Range(tracked_subjects) :
          /\ s.is_confirmed_suspicious <=> s.status = "suspicious"
          /\ s.status = "suspicious" =>
               \A now \in clock..MaxTime : PoseTrue(s, now) = [subject |-> s, out |-> <<>>])
  /\ [][frame'.kind = "processed" =>
          \A p \in PersonIds :
            /\ Len(StatusUpdatesOf(frame'.out, p)) <= 1
            /\ UpdateSubjectStatusCmd(p, "suspicious") \in Range(DbOut') =>
                 /\ \E s \in TrackedSubjectOf(p) : s.status = "pending"
                 /\ \E s \in TrackedSubjectOf(p)' : s.status = "suspicious"
            /\ (/\ \E s \in TrackedSubjectOf(p) : s.status = "suspicious"
                /\ \E s \in TrackedSubjectOf(p)' : s.status = "suspicious")
               => /\ StatusUpdatesOf(frame'.out, p) = <<>>
                  /\ TrackedSubjectOf(p)' = TrackedSubjectOf(p)
            /\ (\E s \in TrackedSubjectOf(p) : s.status = "suspicious") =>
                 \A s \in TrackedSubjectOf(p)' : s.status \in {"suspicious", "normal"}]_vars

\* a subject confirmed Suspicious two or more seconds ago has held the pose
\* since and was observed again: it is still Suspicious and the frame says
\* nothing about it
C27_Witness ==
  /\ frame.kind = "processed"
  /\ \E s \in Range(tracked_subjects) :
       /\ s.status = "suspicious"
       /\ s.yolo \in frame.ids
       /\ held_since[s.tracking_id] = s.pose_start_time
       /\ clock >= s.pose_start_time + POSE_CONFIRMATION_SEC + 2
       /\ StatusUpdatesOf(frame.out, s.tracking_id) = <<>>

\* subject s back to Normal, its timer and its confirmation cleared
Cleared(s) ==
  [s EXCEPT !.status = "normal", !.pose_start_time = NoTime,
            !.is_confirmed_suspicious = FALSE]

\* C28: the pose-false branch takes a Pending or Suspicious subject to
\* Normal with timer and confirmation cleared and emits exactly one
\* update_subject_status(normal), and leaves a Normal subject alone with no
\* command; the pose-true branch leaves a Pending subject alone with no
\* command before the window has elapsed, and takes a Normal subject to
\* Pending with no command. On every frame a subject's status updates are
\* exactly: one (normal) when it goes from Pending or Suspicious to Normal,
\* one (suspicious) when it is confirmed, none otherwise.
C28_PoseFalseAndNoTransition ==
  /\ [](\A s \in Range(tracked_subjects) :
          /\ s.status \in {"normal", "pending", "suspicious"}
          /\ s.status # "normal" =>
               PoseFalse(s)
                 = [subject |-> Cleared(s),
                    out |-> <<Put("db", UpdateSubjectStatusCmd(s.tracking_id, "normal"))>>]
          /\ s.status = "normal" =>
               /\ s = Cleared(s)
               /\ PoseFalse(s) = [subject |-> s, out |-> <<>>]
               /\ \A now \in clock..MaxTime :
                    PoseTrue(s, now)
                      = [subject |-> [s EXCEPT !.status = "pending",
                                               !.pose_start_time = now],
                         out |-> <<>>]
          /\ s.status = "pending" =>
               \A now \in clock..MaxTime :
                 now - s.pose_start_time < POSE_CONFIRMATION_SEC =>
                   PoseTrue(s, now) = [subject |-> s, out |-> <<>>])
  /\ [][frame'.kind = "processed" =>
          \A s \in Range(tracked_subjects) : \A t \in TrackedSubjectOf(s.tracking_id)' :
            StatusUpdatesOf(frame'.out, s.tracking_id)
              = IF s.status # "normal" /\ t.status = "normal"
                THEN <<UpdateSubjectStatusCmd(s.tracking_id, "normal")>>
                ELSE IF s.status = "pending" /\ t.status = "suspicious"
                THEN <<UpdateSubjectStatusCmd(s.tracking_id, "suspicious")>>
                ELSE <<>>]_vars

\* a Pending subject stood up before it was confirmed: it is Normal again,
\* cleared, and the frame's only command is its update_subject_status(normal)
C28_Witness ==
  /\ frame.kind = "processed"
  /\ active_event.status = "inactive"
  /\ ev_phase[1] = "none"
  /\ \E s \in Range(tracked_subjects) :
       /\ s = Cleared(s)
       /\ frame.out = <<Put("db", UpdateSubjectStatusCmd(s.tracking_id, "normal"))>>

\* ------------------------------------------------- claims on persistent ids
\* the persistent ids a message mentions
IdsIn(m) ==
  (IF m.tracking_id # 0 THEN {m.tracking_id} ELSE {})
    \cup {m.subjects[i].tracking_id : i \in DOMAIN m.subjects}

\* C29: every persistent id is given once. The subjects tracked have
\* different ids, all given before; each subject that appears on a frame,
\* for a track never seen or seen again after its subject was removed, has
\* an id that no subject and no message had before, and the frame emits
\* exactly one create_new_subject for it, ahead of every other message of
\* the frame that mentions the id; a frame mentions no id that was neither
\* given before nor created on it.
C29_FreshPersistentIds ==
  /\ [](/\ \A i, j \in DOMAIN tracked_subjects :
             /\ tracked_subjects[i].tracking_id < uuid_next
             /\ tracked_subjects[i].tracking_id = tracked_subjects[j].tracking_id => i = j
        /\ \A i \in DOMAIN frame.out : \A p \in IdsIn(frame.out[i].msg) : p < uuid_next)
  /\ [][frame'.kind = "processed" =>
          /\ \A t \in Range(tracked_subjects') :
               t \notin Range(tracked_subjects) /\ t.tracking_id < uuid_next =>
                 \E s \in Range(tracked_subjects) :
                   s.tracking_id = t.tracking_id /\ s.yolo = t.yolo
          /\ \A p \in uuid_next..(uuid_next' - 1) :
               \E i \in DOMAIN frame'.out :
                 /\ frame'.out[i] = Put("db", CreateNewSubjectCmd(p))
                 /\ \A j \in DOMAIN frame'.out :
                      j # i /\ p \in IdsIn(frame'.out[j].msg) =>
                        i < j /\ frame'.out[j].msg.action # "create_new_subject"
          /\ \A i \in DOMAIN frame'.out :
               frame'.out[i].msg.action = "create_new_subject" =>
                 frame'.out[i].msg.tracking_id \in uuid_next..(uuid_next' - 1)
          /\ \A i \in DOMAIN frame'.out : \A p \in IdsIn(frame'.out[i].msg) :
               p < uuid_next
                 \/ \E j \in 1..i : frame'.out[j] = Put("db", CreateNewSubjectCmd(p))]_vars

\* both tracks have had a subject and one of them, lost and seen again, has
\* just been given the third id, by the first command of the frame
C29_Witness ==
  /\ frame.kind = "processed"
  /\ uuid_next = MaxIds + 1
  /\ \E s \in Range(tracked_subjects) : s.tracking_id = MaxIds
  /\ \E i \in DOMAIN frame.out :
       /\ frame.out[i] = Put("db", CreateNewSubjectCmd(MaxIds))
       /\ \A j \in 1..(i - 1) : MaxIds \notin IdsIn(frame.out[j].msg)

\* ------------------------------------------------ claims on the analysis log
\* the handled tasks whose analysis returned
Analysed(outcomes) == SelectSeq(outcomes, LAMBDA o : o.outcome = "ok")

\* the add_vlm_log command of one task: its event id and its subject ids
IsLogOf(m, task) ==
  /\ m.action = "add_vlm_log"
  /\ m.event_id = task.event_id
  /\ DOMAIN m.subjects = DOMAIN task.subjects
  /\ \A j \in DOMAIN task.subjects : m.subjects[j] = task.subjects[j].tracking_id

\* C30: the commands the worker has put are, one for one and in order, the
\* add_vlm_log commands of the analyze_threat tasks whose analysis returned,
\* each with the event id and exactly the subject ids of its task; a command
\* is put only by the analysis of the task in hand, one at a time; an item
\* leaves vlm_task_queue only at its head and is then in hand, or set aside
\* without a command when it is of another type; and the items handled, in
\* hand and still queued are the items put, in their order, so none is
\* handled twice.
C30_OneLogPerAnalysedTask ==
  /\ [](/\ Len(db_writer_queue) = Len(Analysed(w_outcomes))
        /\ \A i \in DOMAIN Analysed(w_outcomes) :
             /\ Analysed(w_outcomes)[i].task.action = "analyze_threat"
             /\ IsLogOf(db_writer_queue[i], Analysed(w_outcomes)[i].task)
        /\ \A i \in DOMAIN w_outcomes :
             w_outcomes[i].task.action \notin {"analyze_threat", "shutdown"} =>
               w_outcomes[i].outcome \in {"ignored", "sentinel"}
        /\ LET handled == SelectSeq(TasksOf(w_outcomes), LAMBDA t : t # ShutdownMsg)
               n == Len(handled) + Len(InHand(w_task))
           IN /\ n + Len(vlm_task_queue) = Len(vlm_input)
              /\ \A i \in DOMAIN handled : handled[i] = vlm_input[i]
              /\ w_task # NoTask => w_task = vlm_input[n]
              /\ \A i \in DOMAIN vlm_task_queue : vlm_task_queue[i] = vlm_input[n + i])
  /\ [][db_writer_queue' # db_writer_queue =>
          /\ w_pc = "analyze" /\ w_task.action = "analyze_threat"
          /\ Len(db_writer_queue') = Len(db_writer_queue) + 1
          /\ SubSeq(db_writer_queue', 1, Len(db_writer_queue)) = db_writer_queue
          /\ IsLogOf(Last(db_writer_queue'), w_task)
          /\ w_task' = NoTask]_vars
  /\ [][Len(vlm_task_queue') < Len(vlm_task_queue) =>
          /\ vlm_task_queue' = Tail(vlm_task_queue)
          /\ db_writer_queue' = db_writer_queue
          /\ IF Head(vlm_task_queue).action = "analyze_threat"
             THEN w_task = NoTask /\ w_task' = Head(vlm_task_queue)
             ELSE /\ w_task' = w_task
                  /\ Len(w_outcomes') = Len(w_outcomes) + 1
                  /\ Last(w_outcomes').task = Head(vlm_task_queue)
                  /\ Last(w_outcomes').outcome \in {"ignored", "sentinel"}]_vars

\* a task of two subjects analysed, a task of another type set aside, then
\* a task of one subject analysed: two logs, in the order of the tasks
C30_Witness ==
  /\ Len(w_outcomes) = 3
  /\ w_outcomes[1].outcome = "ok" /\ Len(w_outcomes[1].task.subjects) = 2
  /\ w_outcomes[2] = [task |-> OtherTask, outcome |-> "ignored"]
  /\ w_outcomes[3].outcome = "ok" /\ Len(w_outcomes[3].task.subjects) = 1
  /\ db_writer_queue = <<AddVlmLogCmd(2, <<1, 2>>), AddVlmLogCmd(1, <<1>>)>>

\* ------------------------------------------- claims on the state kept in memory
\* C32: after every frame, processed or skipped, and so in every state of the
\* detection loop, the in-memory event is active exactly when some tracked
\* subject is Suspicious.
C32_ActiveIffSomeoneSuspicious ==
  active_event.status = "active"
    <=> \E s \in Range(tracked_subjects) : s.status = "suspicious"

\* a skipped frame that leaves the event active and its subject Suspicious
C32_Witness ==
  /\ frame.kind = "skipped"
  /\ active_event.status = "active"
  /\ \E s \in Range(tracked_subjects) : s.status = "suspicious"

\* C38: for every tracked subject between frames, is_confirmed_suspicious is
\* set exactly when the status is suspicious, and pose_start_time holds a time
\* exactly when the status is pending or suspicious.
C38_FlagsFollowStatus ==
  \A s \in Range(tracked_subjects) :
    /\ s.status \in {"normal", "pending", "suspicious"}
    /\ s.is_confirmed_suspicious <=> s.status = "suspicious"
    /\ s.pose_start_time # NoTime <=> s.status \in {"pending", "suspicious"}

\* a frame on which one subject is Suspicious, with its flag and its timer,
\* and another has just been set back to Normal, without them
C38_Witness ==
  /\ frame.kind = "processed"
  /\ \E s, t \in Range(tracked_subjects) :
       /\ s.status = "suspicious" /\ s.is_confirmed_suspicious
       /\ s.pose_start_time # NoTime
       /\ t.status = "normal" /\ ~t.is_confirmed_suspicious
       /\ t.pose_start_time = NoTime
       /\ \E i \in DOMAIN frame.out :
            frame.out[i] = Put("db", UpdateSubjectStatusCmd(t.tracking_id, "normal"))

\* ---------------------------------------------- claims on the durable records
\* the persistence channel is fully drained: nothing waits in it and the
\* consumer has no command in hand
Drained == db_writer_queue = <<>> /\ db_task = NoTask

\* the event records of the store whose status is active
ActiveRecords == {i \in DOMAIN store.events : store.events[i].status = "active"}

C34_AsStated ==
  Drained =>
    \A i \in DOMAIN store.subjects :
      store.subjects[i].current_status = "suspicious" =>
        \E s \in Range(tracked_subjects) :
          /\ s.tracking_id = store.subjects[i].tracking_id
          /\ s.status = "suspicious"

\* the channel is drained, no event is active, its record is ended, and the
\* record of a subject that is no longer tracked still says suspicious
C34_StaleSuspicious ==
  /\ Drained
  /\ active_event.status = "inactive"
  /\ store.events # <<>>
  /\ ActiveRecords = {}
  /\ \E i \in DOMAIN store.subjects :
       /\ store.subjects[i].current_status = "suspicious"
       /\ \A s \in Range(tracked_subjects) :
            s.tracking_id # store.subjects[i].tracking_id

\* --------------------------------------- claims on the stream of commands
\* the positions of q whose command records p as a participant of event e
RecordedAt(q, e, p) ==
  {j \in DOMAIN q : /\ q[j].action \in {"create_event", "add_participant_to_event"}
                    /\ q[j].event_id = e
                    /\ q[j].tracking_id = p}

\* C35 as stated: in the order in which the commands enter the persistence
\* channel, every add_vlm_log for an event comes before the end_event of
\* that event.
C35_AsStated ==
  \A i, j \in DOMAIN db_writer_queue :
    (/\ db_writer_queue[i].action = "end_event"
     /\ db_writer_queue[j].action = "add_vlm_log"
     /\ db_writer_queue[j].event_id = db_writer_queue[i].event_id) => j < i

\* the worker has put the log of an event behind the end_event of that event
C35_LogBehindEndEvent ==
  \E i, j \in DOMAIN db_writer_queue :
    /\ i < j
    /\ db_writer_queue[i].action = "end_event"
    /\ db_writer_queue[j] = AddVlmLogCmd(db_writer_queue[i].event_id, <<1>>)
    /\ w_pc = "poll"

\* C36: every task the detection loop emits names at least one subject, is
\* for the event that is active when it is emitted, and names participants of
\* that event only; every subject named by a task that waits or is in the
\* worker's hand has been recorded for the task's event by a create_event or
\* add_participant command already put; and every subject named by an
\* add_vlm_log has been recorded for the log's event by a command put ahead
\* of the log.
C36_TaskNamesParticipants ==
  /\ [][frame'.kind = "processed" =>
          \A i \in DOMAIN frame'.out :
            frame'.out[i].queue = "vlm" =>
              /\ frame'.out[i].msg.subjects # <<>>
              /\ active_event'.status = "active"
              /\ frame'.out[i].msg.event_id = active_event'.id
              /\ \A k \in DOMAIN frame'.out[i].msg.subjects :
                   frame'.out[i].msg.subjects[k].tracking_id
                     \in active_event'.participants]_vars
  /\ [](/\ \A t \in Range(vlm_task_queue) \cup {w_task} :
             t.action = "analyze_threat" =>
               /\ t.subjects # <<>>
               /\ \A k \in DOMAIN t.subjects :
                    RecordedAt(db_writer_queue, t.event_id,
                               t.subjects[k].tracking_id) # {}
        /\ \A i \in DOMAIN db_writer_queue :
             db_writer_queue[i].action = "add_vlm_log" =>
               /\ db_writer_queue[i].subjects # <<>>
               /\ \A k \in DOMAIN db_writer_queue[i].subjects :
                    \E j \in RecordedAt(db_writer_queue,
                                        db_writer_queue[i].event_id,
                                        db_writer_queue[i].subjects[k]) : j < i)

\* the log of an event names two subjects: one recorded by create_event, the
\* other by an add_participant, both ahead of the log
C36_Witness ==
  \E i \in DOMAIN db_writer_queue : \E a, b \in DOMAIN db_writer_queue :
    /\ db_writer_queue[i].action = "add_vlm_log"
    /\ Len(db_writer_queue[i].subjects) = 2
    /\ a < i /\ b < i
    /\ db_writer_queue[a].action = "create_event"
    /\ db_writer_queue[b].action = "add_participant_to_event"
    /\ db_writer_queue[a].event_id = db_writer_queue[i].event_id
    /\ db_writer_queue[b].event_id = db_writer_queue[i].event_id
    /\ {db_writer_queue[a].tracking_id, db_writer_queue[b].tracking_id}
         = Range(db_writer_queue[i].subjects)

\* the create_event and add_participant commands among out, in order
Recordings(out) ==
  SelectSeq(PutsOn(out, "db"),
            LAMBDA m : m.action \in {"create_event", "add_participant_to_event"})

\* C37: a participant is recorded once. The commands of a frame that record
\* participants are all for the event active after the frame and no two of
\* them carry the same id, so the seed of create_event is not repeated; an
\* add_participant for an event that was already active carries an id that
\* was not among its participants; the participants after the frame are
\* those before it and those the frame records; an event keeps its id while
\* it is active, and a new event takes an id no event had.
C37_RecordedOnce ==
  /\ [][frame'.kind = "processed" =>
          /\ \A i, j \in DOMAIN Recordings(frame'.out) :
               /\ Recordings(frame'.out)[i].event_id = active_event'.id
               /\ Recordings(frame'.out)[i].tracking_id
                    = Recordings(frame'.out)[j].tracking_id => i = j
               /\ Recordings(frame'.out)[i].tracking_id \notin ParticipantsBefore
          /\ Recordings(frame'.out) # <<>> => active_event'.status = "active"
          /\ active_event'.status = "active" =>
               active_event'.participants
                 = ParticipantsBefore
                     \cup {Recordings(frame'.out)[i].tracking_id :
                             i \in DOMAIN Recordings(frame'.out)}
          /\ \A i \in DOMAIN Recordings(frame'.out) :
               Recordings(frame'.out)[i].action = "create_event" =>
                 /\ i = 1
                 /\ active_event.status = "inactive"
                 /\ Recordings(frame'.out)[i].event_id = oid_next
                 /\ oid_next' = oid_next + 1]_vars
  /\ [][(active_event.status = "active" /\ active_event'.status = "active") =>
          active_event'.id = active_event.id /\ oid_next' = oid_next]_vars
  /\ [](active_event.status = "active" => active_event.id < oid_next)

\* a later pass of a running event: the seed is still Suspicious and is not
\* recorded again, the newcomer is recorded by the frame's one add_participant
C37_Witness ==
  /\ frame.kind = "processed"
  /\ DbOutOf(frame.out, "create_event") = <<>>
  /\ Len(Recordings(frame.out)) = 1
  /\ Cardinality(active_event.participants) = 2
  /\ SuspiciousIds(tracked_subjects) = active_event.participants
  /\ ev_phase[active_event.id] = "open"
  /\ last_task[active_event.id] = clock
  /\ task_gap[active_event.id] # NoTime

\* ------------------------------------------------- claims on the way out
\* C31 as stated, as far as it forbids: a consumer that has entered its loop
\* ends only by taking its sentinel. The persistence consumer's process does
\* not end except closed, after the shutdown command, with no command left
\* in hand and none ahead of the sentinel unprocessed; the worker's process
\* does not end except on None, with no analysis task left in its channel.
C31_AsStated ==
  /\ db_pc # "terminated"
  /\ w_pc # "terminated"
  /\ w_pc = "done" =>
       \A i \in DOMAIN vlm_task_queue : vlm_task_queue[i].action # "analyze_threat"

\* the orchestrator is done: the persistence consumer, which had applied
\* commands, was terminated with a command ahead of the shutdown command
\* still in the channel, and never closed the store connection
C31_TerminatedBeforeSentinel ==
  /\ orch_pc = "done"
  /\ db_pc = "terminated"
  /\ store.subjects # <<>>
  /\ \E i, j \in DOMAIN db_writer_queue :
       /\ i < j
       /\ db_writer_queue[i].action \in RoutedActions
       /\ db_writer_queue[j] = ShutdownMsg

====
